---- MODULE Spec2Model ----
(***************************************************************************)
(* A model of rubit's swarm engine: the orchestrator loop of               *)
(* rubit-cli/src/main.rs, the peer registry of rubit/src/thread.rs and the *)
(* per-peer worker of rubit/src/conn.rs (PeerConnManager::handle_peer).    *)
(*                                                                         *)
(* Data abstraction.  A block of piece p at block position k is the unit   *)
(* <<p, k>>; Junk is any other payload.  A buffer is the sequence of the   *)
(* payloads appended to it.  SHA-1 is idealised as collision free: the     *)
(* digest of a buffer determines the buffer.  A successful File::write is  *)
(* taken to write the whole buffer.                                        *)
(***************************************************************************)
EXTENDS Integers, Sequences, FiniteSets, TLC

\* ------------------------------------------------------------------ bounds

\* Worker threads the orchestrator may spawn in one run.
MaxThreads == 2
\* Distinct peer socket addresses the trackers may return.
NumAddrs == 2
\* Peers in one announce response.
MaxPeers == 1
\* Choke frames the peers send in the middle of a piece, over the whole run.
MaxChokes == 1

\* --------------------------------------------------------------- constants

\* conn.rs:165-168, the block size of a request.
BlockSize == 16384
\* main.rs:115, the registry size above which the orchestrator does not announce.
RegistryCap == 30

\* The torrent of the run (metainfo.info): two pieces, the last one short.
TorrentInfo == [length |-> 40000, piece_length |-> 32768]

NumPieces == (TorrentInfo.length + TorrentInfo.piece_length - 1) \div TorrentInfo.piece_length
Pieces == 0 .. (NumPieces - 1)
Threads == 1 .. MaxThreads
Addrs == 1 .. NumAddrs
NoThread == 0

VARIABLES
    orchPc,       \* position of main
    pending,      \* result.peers still to be handed to try_add (main.rs:163)
    handles,      \* main's Vec<JoinHandle>: thread ids in spawn order
    joinIdx,      \* handles already joined (main.rs:193)
    tryAddResult, \* what try_add returned in this pass of the for loop
    peers,        \* PeerManager.peers, the registry
    queue,        \* global_queue
    qlock,        \* the thread holding the queue mutex, or NoThread
    fileLock,     \* the thread holding the file mutex, or NoThread
    fileCursor,   \* the shared file handle's position
    disk,         \* offset -> the buffer stored there (<<>>: nothing)
    worker,       \* per thread: pc (position in handle_peer), addr
                  \* (socket_addr), state and my_state (PeerConnManager),
                  \* peer_pieces, piece_index, blk (the block counter i), buf,
                  \* heard (history: the indices advertised by the last
                  \* frame read, when the thread has done nothing since),
                  \* err (the ConnError handle_peer is returning), and hs
                  \* (history: bytes 28..48 of the handshake replies read,
                  \* until the thread next writes to the stream), and ioerr
                  \* (history: a call on the socket returned Err, until the
                  \* thread next writes to the stream or has returned)
    queuedBy,     \* history: for each queue position, the worker that pushed
                  \* the index there (NoThread: main's initial queue)
    lost,         \* history: the indices a worker held when its thread ended
    pushes,       \* history: push-backs of the claimed piece since its pop
    chokes,       \* history: mid-piece chokes received so far
    served,       \* environment: the addresses of the peers that, in this
                  \* run, accept the connection, answer the handshake with
                  \* the torrent's info-hash, advertise every piece, stay
                  \* connected and send only unchoke, have, choke and the
                  \* block asked for
    call,         \* the function applied on its own and its arguments
    ret           \* what that function returned

orchVars == <<orchPc, pending, handles, joinIdx, tryAddResult>>
sharedVars == <<peers, queue, qlock, fileLock, fileCursor, disk>>
histVars == <<queuedBy, lost, pushes, chokes>>
swarmVars == <<orchVars, sharedVars, worker, histVars>>
fnVars == <<call, ret>>
vars == <<swarmVars, fnVars, served>>

\* No function is applied on its own during a run of the swarm.
NoCall == [fn |-> "none"]
NoRet == [tag |-> "none"]

\* ------------------------------------------------------------ pure helpers

\* A worker that takes every piece to be piece_length bytes long.
piece_len_whole(piece_index, num_pieces, length, piece_length) == piece_length

\* conn.rs:157-163, the value of piece_len; num_pieces is torrent_file.info.pieces.len()
piece_len_of(piece_index, num_pieces, length, piece_length) ==
    IF piece_index = num_pieces - 1 /\ length % piece_length # 0
    THEN length % piece_length
    ELSE piece_length

\* piece_len for the torrent of the run
PieceLen(i) == piece_len_of(i, NumPieces, TorrentInfo.length, TorrentInfo.piece_length)

\* conn.rs:165-168
BlockLen(len) == IF len < BlockSize THEN len ELSE BlockSize

\* conn.rs:170-174; the quotient of the two f64 is exact for a usize that
\* came from a u32, so its ceil is the integer quotient plus one.
NumBlocks(len) ==
    IF len % BlockLen(len) = 0
    THEN len \div BlockLen(len)
    ELSE (len \div BlockLen(len)) + 1

Unit(p, k) == <<p, k>>
Junk == <<-1, -1>>

\* The true content of piece i, block by block.
PieceContent(i) == [k \in 1 .. NumBlocks(PieceLen(i)) |-> Unit(i, k - 1)]

\* Sha1::finalize of the bytes fed to the hasher.
Sha1(data) == [sha1 |-> data]

\* torrent_file.info.pieces[i]
PieceHash(i) == Sha1(PieceContent(i))

\* conn.rs:233-245: every bit position is tested with the mask 255 >> bit.
BitIsSet(byte, bit) == byte % (2 ^ (8 - bit)) > 0

\* Bit (7 - b) of a byte is set.
MsbBitIsSet(byte, b) == (byte \div (2 ^ (7 - b))) % 2 = 1

ReadBitfield(bytes) ==
    {p \in 0 .. (8 * Len(bytes) - 1) : BitIsSet(bytes[(p \div 8) + 1], p % 8)}

\* piece_index * piece_length, the offset of a piece in the file
Offset(i) == i * TorrentInfo.piece_length
Offsets == {Offset(i) : i \in Pieces}

SeqsUpTo(S, n) == UNION {[1 .. k -> S] : k \in 0 .. n}

Perms(S) == {s \in [1 .. Cardinality(S) -> S] : \A x \in S : \E j \in DOMAIN s : s[j] = x}

\* A worker that asks for a whole block every time.
RequestLenWhole(i, len) == BlockLen(len)

\* conn.rs:180-184, the length asked for in the request of block i
RequestLen(i, len) ==
    IF i = NumBlocks(len) - 1 /\ len % BlockLen(len) # 0
    THEN len % BlockLen(len)
    ELSE BlockLen(len)

\* Bytes of a payload unit: a true block has the length requested for it.
UnitBytes(u) == IF u = Junk THEN 1 ELSE RequestLen(u[2], PieceLen(u[1]))

RECURSIVE ByteLen(_)
ByteLen(data) == IF data = <<>> THEN 0 ELSE UnitBytes(Head(data)) + ByteLen(Tail(data))

\* ------------------------------------------------------------------ frames

\* What read_stream hands back: a frame's id, its length in bytes, the index
\* of a have, and the bytes after the fixed header.  id -1 is an Err.
MkFrame(id, len, index, body) == [id |-> id, len |-> len, index |-> index, body |-> body]

IoErr == MkFrame(-1, 0, 0, <<>>)
ChokeFrame == MkFrame(0, 1, 0, <<>>)
UnchokeFrame == MkFrame(1, 1, 0, <<>>)
InterestedFrame == MkFrame(2, 1, 0, <<>>)
HaveFrame(i) == MkFrame(4, 5, i, <<>>)
ShortHaveFrame == MkFrame(4, 3, 0, <<>>)
BitfieldFrame(bytes) == MkFrame(5, 1 + Len(bytes), 0, bytes)
PieceFrame(i, data) == MkFrame(7, 9 + ByteLen(data), i, data)
ShortPieceFrame == MkFrame(7, 5, 0, <<>>)

\* Bitfield bodies the peers send: 0b10000000 and 0b01000000.
BitfieldBodies == {<<128>>, <<64>>}

\* The piece indices a frame advertises: the index of a have, the bits set
\* in a bitfield, the first bit of the first byte being piece 0.
Advertised(f) ==
    IF f.id = 4 /\ f.len >= 5 THEN {f.index}
    ELSE IF f.id = 5
    THEN {p \in 0 .. (8 * Len(f.body) - 1) : MsbBitIsSet(f.body[(p \div 8) + 1], p % 8)}
    ELSE {}

\* The frames a peer may send before the download loop.
PreambleReads ==
    {IoErr, ChokeFrame, UnchokeFrame, ShortHaveFrame}
        \cup {HaveFrame(i) : i \in Pieces}
        \cup {BitfieldFrame(b) : b \in BitfieldBodies}

\* The frames a peer may send while the worker waits for an unchoke.
WaitReads == {IoErr, UnchokeFrame, InterestedFrame} \cup {HaveFrame(i) : i \in Pieces}

\* The frames a peer may send in answer to the request of block k of piece i.
BlockReads(i, k) ==
    {IoErr, ChokeFrame, ShortPieceFrame,
     PieceFrame(i, <<Unit(i, k)>>), PieceFrame(i, <<Junk>>)}

\* The peer lists an announce may return.
PeerLists == SeqsUpTo(Addrs, MaxPeers)

\* ------------------------------------------------------------ orchestrator

\* util.rs:46-85, check_download_percent over the stored buffers: the pieces
\* whose region of the file hashes to its digest.
CheckDownloadPercent(d) ==
    IF \A o \in Offsets : d[o] = <<>>
    THEN {}
    ELSE {i \in Pieces : Sha1(d[Offset(i)]) = PieceHash(i)}

\* A retain that keeps every index.
RetainAll(completed, all) == all

\* util.rs:87-89, retain_not_downloaded_pieces (as a set; main shuffles it)
RetainNotDownloaded(completed, all) == {e \in all : e \notin completed}

\* The process is gone once main has returned, exited or panicked.
ProcessAlive == orchPc \in {"Start", "LoopTop", "Spawn", "Join"}


\* A thread not spawned yet; PeerConnManager::new (conn.rs:44-49) gives
\* my_state None and state Choked.
IdleWorker ==
    [pc |-> "Idle", addr |-> 0, state |-> "Choked", my_state |-> "None",
     peer_pieces |-> {}, piece_index |-> 0, blk |-> 0, buf |-> <<>>, heard |-> {},
     err |-> "-", hs |-> {}, ioerr |-> FALSE]

\* A thread whose handle_peer has ended at `where`: its connection state is dropped.
Ended(w, where) == [IdleWorker EXCEPT !.pc = where, !.addr = w.addr]

\* conn.rs:17-27: handle_peer returns Err(e); `?` on an io::Error gives Io.
ReturnsErr(w, e) == [Ended(w, "RetErr") EXCEPT !.err = e]

\* A connect, read or write on the socket failed and handle_peer returns e.
SocketErr(w, e) == [ReturnsErr(w, e) EXCEPT !.ioerr = TRUE]

\* The locals of the download block (piece_index, i, buf) out of scope.
NoLocals(w) == [w EXCEPT !.piece_index = 0, !.blk = 0, !.buf = <<>>]

\* The swarm after construction: nothing spawned, the file as a previous run
\* left it.
SwarmInit ==
    /\ orchPc = "Start"
    /\ pending = <<>>
    /\ handles = <<>>
    /\ joinIdx = 0
    /\ tryAddResult = "-"
    /\ peers = {}
    /\ queue = <<>>
    /\ qlock = NoThread
    /\ fileLock = NoThread
    /\ fileCursor = 0
    /\ \E done \in SUBSET Pieces :
          disk = [o \in Offsets |->
                    IF (o \div TorrentInfo.piece_length) \in done
                    THEN PieceContent(o \div TorrentInfo.piece_length)
                    ELSE <<>>]
    /\ worker = [t \in Threads |-> IdleWorker]
    /\ queuedBy = <<>>
    /\ lost = {}
    /\ pushes = [t \in Threads |-> 0]
    /\ chokes = 0

Init == SwarmInit /\ served = {} /\ call = NoCall /\ ret = NoRet

\* main.rs:48-79: the resume scan, the queue of the pieces left, the shuffle;
\* exit(0) when nothing is left.
OrchStart ==
    /\ orchPc = "Start"
    /\ LET cleaned == RetainNotDownloaded(CheckDownloadPercent(disk), Pieces)
       IN IF cleaned = {}
          THEN orchPc' = "Exit0" /\ UNCHANGED <<queue, queuedBy>>
          ELSE /\ orchPc' = "LoopTop"
               /\ queue' \in Perms(cleaned)
               /\ queuedBy' = [j \in 1 .. Cardinality(cleaned) |-> NoThread]
    /\ UNCHANGED <<pending, handles, joinIdx, tryAddResult, peers, qlock, fileLock,
                   fileCursor, disk, worker, lost, pushes, chokes>>
    /\ UNCHANGED <<fnVars, served>>

\* main.rs:101-161: one pass of the loop up to the announce.  The pass is a
\* `continue` while the registry is above the cap or the tracker interval
\* has not elapsed; otherwise main announces until a tracker answers (an Err
\* is tried again), and a failure response makes main panic.  The peers
\* returned never exceed the threads the run may still spawn.
OrchAnnounce ==
    /\ orchPc = "LoopTop"
    /\ \E outcome \in {"Continue", "Err", "Failure", "Done"} :
          IF Cardinality(peers) > RegistryCap \/ outcome \in {"Continue", "Err"}
          THEN UNCHANGED <<orchPc, pending>>
          ELSE IF outcome = "Failure"
          THEN orchPc' = "PanicFailure" /\ UNCHANGED pending
          ELSE /\ \E list \in PeerLists :
                     /\ Len(handles) + Len(list) <= MaxThreads
                     /\ pending' = list
               /\ orchPc' = "Spawn"
    /\ UNCHANGED <<handles, joinIdx, tryAddResult, sharedVars, worker, histVars>>
    /\ UNCHANGED <<fnVars, served>>

\* A try_add that spawns whether or not the address was already registered.
InsertAlwaysNew(set, a) == TRUE

\* thread.rs:34, HashSet::insert: true when the address was not in the set
InsertIsNew(set, a) == a \notin set

\* main.rs:163-183 with thread.rs:24-56: try_add for the next returned peer.
OrchTryAdd ==
    /\ orchPc = "Spawn"
    /\ pending # <<>>
    /\ LET a == Head(pending)
           t == Len(handles) + 1
       IN /\ pending' = Tail(pending)
          /\ peers' = peers \cup {a}
          /\ IF InsertIsNew(peers, a)
             THEN /\ handles' = Append(handles, t)
                  /\ tryAddResult' = "Some"
                  /\ worker' = [worker EXCEPT ![t] =
                                   [IdleWorker EXCEPT !.pc = "Connect", !.addr = a]]
             ELSE /\ tryAddResult' = "None"
                  /\ UNCHANGED <<handles, worker>>
    /\ UNCHANGED <<orchPc, joinIdx, queue, qlock, fileLock, fileCursor, disk, histVars>>
    /\ UNCHANGED <<fnVars, served>>

\* main.rs:185-190: after the peers, leave the loop when the queue is empty.
OrchCheckQueue ==
    /\ orchPc = "Spawn"
    /\ pending = <<>>
    /\ qlock = NoThread
    /\ orchPc' = IF queue = <<>> THEN "Join" ELSE "LoopTop"
    /\ tryAddResult' = "-"
    /\ UNCHANGED <<pending, handles, joinIdx, sharedVars, worker, histVars>>
    /\ UNCHANGED <<fnVars, served>>

\* main.rs:193-195: join the next handle; unwrap panics on a panicked thread.
OrchJoin ==
    /\ orchPc = "Join"
    /\ joinIdx < Len(handles)
    /\ LET t == handles[joinIdx + 1]
       IN CASE worker[t].pc = "Done" -> joinIdx' = joinIdx + 1 /\ UNCHANGED orchPc
            [] worker[t].pc = "Panicked" -> orchPc' = "PanicJoin" /\ UNCHANGED joinIdx
            [] OTHER -> FALSE
    /\ UNCHANGED <<pending, handles, tryAddResult, sharedVars, worker, histVars>>
    /\ UNCHANGED <<fnVars, served>>

\* main.rs:196: every handle joined, main returns.
OrchExit ==
    /\ orchPc = "Join"
    /\ joinIdx = Len(handles)
    /\ orchPc' = "Exited"
    /\ UNCHANGED <<pending, handles, joinIdx, tryAddResult, sharedVars, worker, histVars>>
    /\ UNCHANGED <<fnVars, served>>

\* ------------------------------------------------------------------ worker

At(t, where) == ProcessAlive /\ worker[t].pc = where

SetWorker(t, w) == worker' = [worker EXCEPT ![t] = w]

ResetPushes(t) == pushes' = [pushes EXCEPT ![t] = 0]

\* History of a thread that ends while it holds a claimed index.
DiesClaiming(t) == ResetPushes(t) /\ lost' = lost \cup {worker[t].piece_index}

\* conn.rs:119-136: back at the top of the loop.  Interested is sent only
\* while my_state is None (LoopTop below); afterwards the top of the loop
\* only chooses between waiting for an unchoke and the queue.
Loop(w) ==
    [w EXCEPT !.pc = IF w.my_state = "None" THEN "LoopTop"
                     ELSE IF w.state = "Choked" THEN "WaitUnchoke" ELSE "Pop"]

\* The peer of thread t is one of the served peers.
Served(t) == worker[t].addr \in served

\* Whether a call on the socket of thread t, or on the file for it, succeeds:
\* either, except that nothing fails on the connection of a served peer.
Oks(t) == IF Served(t) THEN {TRUE} ELSE BOOLEAN

\* 0b11000000: a bitfield with the bit of every piece of the torrent set
FullBitfield == <<192>>

\* The frames the peer of thread t may send before the download loop: a
\* served peer sends its full bitfield, then unchoke.
PreambleFrames(t) ==
    IF ~Served(t) THEN PreambleReads
    ELSE IF worker[t].peer_pieces # Pieces THEN {BitfieldFrame(FullBitfield)}
    ELSE {UnchokeFrame}

\* The frames the peer of thread t may send while the worker waits for an
\* unchoke.
WaitFrames(t) == IF Served(t) THEN WaitReads \ {IoErr} ELSE WaitReads

\* The frames the peer of thread t may send in answer to the request of
\* block k of piece i: a served peer sends that block, or a choke.
BlockFrames(t, i, k) ==
    IF Served(t) THEN {ChokeFrame, PieceFrame(i, <<Unit(i, k)>>)} ELSE BlockReads(i, k)

\* conn.rs:60-63: connect within two seconds, or return Err(TimeOut).
Connect(t) ==
    /\ At(t, "Connect")
    /\ \E ok \in Oks(t) :
          SetWorker(t, IF ok THEN [worker[t] EXCEPT !.pc = "Handshake"]
                             ELSE SocketErr(worker[t], "TimeOut"))
    /\ UNCHANGED <<orchVars, sharedVars, histVars>>
    /\ UNCHANGED <<fnVars, served>>

\* The torrent's info-hash, another torrent's, this client's peer id and a
\* peer's: twenty bytes each.
InfoHash == [i \in 1 .. 20 |-> i]
OtherInfoHash == [i \in 1 .. 20 |-> 100 + i]
PeerId == [i \in 1 .. 20 |-> 45]
RemotePeerId == [i \in 1 .. 20 |-> 82]

\* message.rs:110-112, "BitTorrent protocol"
BITTORRENT_PROTOCOL_BYTES ==
    <<66, 105, 116, 84, 111, 114, 114, 101, 110, 116, 32, 112, 114, 111, 116, 111, 99, 111, 108>>

\* message.rs:118-128, HandShake::as_bytes
HandShake_as_bytes(info_hash, peer_id) ==
    <<19>> \o BITTORRENT_PROTOCOL_BYTES \o [i \in 1 .. 8 |-> 0] \o info_hash \o peer_id

\* conn.rs:78, [0u8; 68]
ZeroHandshake == [i \in 1 .. 68 |-> 0]

\* The 68 bytes a peer may answer with: the handshake of the same torrent
\* (reserved bits set), that of another torrent, and 68 zero bytes.
HandshakeReplies ==
    {[HandShake_as_bytes(InfoHash, RemotePeerId) EXCEPT ![26] = 16],
     HandShake_as_bytes(OtherInfoHash, RemotePeerId),
     ZeroHandshake}

\* Bytes 28..48 of a handshake
HashRegion(handshake) == SubSeq(handshake, 29, 48)

\* conn.rs:87, handshake_bytes[28..48] != handshake_buf[28..48]
HashRegionDiffers(handshake_bytes, handshake_buf) ==
    HashRegion(handshake_bytes) # HashRegion(handshake_buf)

\* conn.rs:66-89: send the handshake, then read 68 bytes at a time until they
\* are not all zero; an I/O error returns Err, another info-hash in bytes
\* 28..48 returns Ok(()).
Handshake(t) ==
    /\ At(t, "Handshake")
    /\ \/ ~Served(t) /\ SetWorker(t, SocketErr(worker[t], "Io"))
       \/ \E handshake_buf \in (IF Served(t)
                                THEN {HandShake_as_bytes(InfoHash, RemotePeerId)}
                                ELSE HandshakeReplies) :
             LET w == [worker[t] EXCEPT !.hs = @ \cup {HashRegion(handshake_buf)}]
             IN SetWorker(t,
                  IF handshake_buf = ZeroHandshake THEN w
                  ELSE IF HashRegionDiffers(HandShake_as_bytes(InfoHash, PeerId), handshake_buf)
                  THEN [Ended(w, "Done") EXCEPT !.hs = w.hs]
                  ELSE [w EXCEPT !.pc = "Preamble"])
    /\ UNCHANGED <<orchVars, sharedVars, histVars>>
    /\ UNCHANGED <<fnVars, served>>

\* conn.rs:247-249: buf[1..5] panics on a frame shorter than five bytes
ReadHavePanics(f) == f.len < 5

\* conn.rs:92-117: absorb bitfield and have until the first unchoke; any
\* other frame, and an Err, end the preamble.
Preamble(t) ==
    /\ At(t, "Preamble")
    /\ \E f \in PreambleFrames(t) :
          SetWorker(t,
            CASE f.id = 5 -> [worker[t] EXCEPT !.peer_pieces = @ \cup ReadBitfield(f.body),
                                               !.heard = Advertised(f)]
              [] f.id = 4 -> IF ReadHavePanics(f)
                             THEN Ended(worker[t], "Panicked")
                             ELSE [worker[t] EXCEPT !.peer_pieces = @ \cup {f.index},
                                                    !.heard = Advertised(f)]
              [] f.id = 1 -> Loop([worker[t] EXCEPT !.state = "UnChoked", !.heard = {}])
              [] f.id = -1 -> Loop([worker[t] EXCEPT !.heard = {}, !.ioerr = TRUE])
              [] OTHER -> Loop([worker[t] EXCEPT !.heard = {}]))
    /\ UNCHANGED <<orchVars, sharedVars, histVars>>
    /\ UNCHANGED <<fnVars, served>>

\* conn.rs:120-123: my_state is None: send interested, then wait for an
\* unchoke or go for the queue.
LoopTop(t) ==
    /\ At(t, "LoopTop")
    /\ \E ok \in Oks(t) :
          SetWorker(t, IF ok
                       THEN Loop([worker[t] EXCEPT !.my_state = "Interested", !.hs = {},
                                                   !.ioerr = FALSE])
                       ELSE SocketErr(worker[t], "Io"))
    /\ UNCHANGED <<orchVars, sharedVars, histVars>>
    /\ UNCHANGED <<fnVars, served>>

\* conn.rs:125-134: read frames until an unchoke; every other frame is dropped.
WaitUnchoke(t) ==
    /\ At(t, "WaitUnchoke")
    /\ \E f \in WaitFrames(t) :
          SetWorker(t,
            CASE f.id = -1 -> SocketErr(worker[t], "Io")
              [] f.id = 1 -> Loop([worker[t] EXCEPT !.state = "UnChoked", !.heard = {}])
              [] OTHER -> [worker[t] EXCEPT !.heard = Advertised(f)])
    /\ UNCHANGED <<orchVars, sharedVars, histVars>>
    /\ UNCHANGED <<fnVars, served>>

\* A push_back_to_queue that marks the piece in peer_pieces and pushes nothing.
PushBackDrops(q, value) == q

\* conn.rs:282-292, push_back_to_queue: the queue after the push
PushBackToQueue(q, value) == Append(q, value)

\* A push_back_to_queue that pushes the index and leaves peer_pieces alone.
MarkNothing(peer_pieces, value) == peer_pieces

\* conn.rs:290, push_back_to_queue: peer_pieces after the insert
MarkPiece(peer_pieces, value) == peer_pieces \cup {value}

\* A worker that drops the queue guard as soon as pop_front returned None.
GuardDroppedOnNone(t) == NoThread

\* conn.rs:137-144: the guard `queue` is alive in the None arm, up to the return
GuardOnNone(t) == t

\* A worker that pops an index its peer lacks and does not push it back.
PopDropped(q) == Tail(q)

\* conn.rs:138-149, pop_front then push_back of the same index
PopPushBack(q) == Append(Tail(q), Head(q))

\* conn.rs:136-155: lock the queue and pop.  On an empty queue the guard
\* lives on into the not-interested write; on a piece the peer lacks the
\* index goes to the tail; otherwise the index is claimed and the lock
\* dropped.
Pop(t) ==
    /\ At(t, "Pop")
    /\ qlock = NoThread
    /\ IF queue = <<>>
       THEN /\ qlock' = GuardOnNone(t)
            /\ SetWorker(t, [worker[t] EXCEPT !.pc = "WriteNotInterested"])
            /\ UNCHANGED <<queue, queuedBy>>
       ELSE LET i == Head(queue)
            IN IF i \notin worker[t].peer_pieces
               THEN /\ queue' = PopPushBack(queue)
                    /\ queuedBy' = Append(Tail(queuedBy), t)
                    /\ SetWorker(t, Loop(worker[t]))
                    /\ UNCHANGED qlock
               ELSE /\ queue' = Tail(queue)
                    /\ SetWorker(t, [worker[t] EXCEPT !.peer_pieces = @ \ {i},
                                                      !.piece_index = i,
                                                      !.blk = 0,
                                                      !.buf = <<>>,
                                                      !.pc = "Request"])
                    /\ queuedBy' = Tail(queuedBy)
                    /\ UNCHANGED qlock
    /\ ResetPushes(t)
    /\ UNCHANGED <<orchVars, peers, fileLock, fileCursor, disk, lost, chokes>>
    /\ UNCHANGED <<fnVars, served>>

\* conn.rs:140-144: write not-interested under the queue lock, then return
\* Err (EmptyQueue, or the write's error); the return drops the lock.
WriteNotInterested(t) ==
    /\ At(t, "WriteNotInterested")
    /\ qlock' = IF qlock = t THEN NoThread ELSE qlock
    /\ \E sent \in Oks(t) :
          SetWorker(t, IF sent THEN ReturnsErr(worker[t], "EmptyQueue")
                               ELSE SocketErr(worker[t], "Io"))
    /\ UNCHANGED <<orchVars, peers, queue, fileLock, fileCursor, disk, histVars>>
    /\ UNCHANGED <<fnVars, served>>

\* conn.rs:179 and 208: the for loop's step after block i
AfterBlock(w) ==
    IF w.blk + 1 < NumBlocks(PieceLen(w.piece_index))
    THEN [w EXCEPT !.blk = @ + 1, !.pc = "Request"]
    ELSE [w EXCEPT !.pc = "HashCheck"]

\* conn.rs:197, block[9..] panics on a piece frame shorter than nine bytes
PieceSlicePanics(f) == f.len < 9

\* conn.rs:179-207: send the request of block i, then read frames until a
\* piece (append its payload) or a choke (set Choked; the push-back follows
\* under the queue lock); frames of other ids are skipped.
Request(t) ==
    /\ At(t, "Request")
    /\ \E sent \in Oks(t) :
          IF ~sent
          THEN /\ SetWorker(t, SocketErr(worker[t], "Io"))
               /\ DiesClaiming(t)
               /\ UNCHANGED chokes
          ELSE \E f \in BlockFrames(t, worker[t].piece_index, worker[t].blk) :
                 CASE f.id = 7 ->
                        /\ SetWorker(t, IF PieceSlicePanics(f)
                                        THEN Ended(worker[t], "Panicked")
                                        ELSE AfterBlock([worker[t] EXCEPT !.buf = @ \o f.body]))
                        /\ IF PieceSlicePanics(f)
                           THEN DiesClaiming(t)
                           ELSE UNCHANGED <<pushes, lost>>
                        /\ UNCHANGED chokes
                   [] f.id = 0 ->
                        /\ chokes < MaxChokes
                        /\ chokes' = chokes + 1
                        /\ SetWorker(t, [worker[t] EXCEPT !.state = "Choked",
                                                          !.pc = "PushBackChoke"])
                        /\ UNCHANGED <<pushes, lost>>
                   [] OTHER ->
                        /\ SetWorker(t, SocketErr(worker[t], "Io"))
                        /\ DiesClaiming(t)
                        /\ UNCHANGED chokes
    /\ UNCHANGED <<orchVars, sharedVars, queuedBy>>
    /\ UNCHANGED <<fnVars, served>>

\* conn.rs:203-204: push the index back after a choke, then `break` out of
\* the read loop only: the for loop goes on with the next block.
PushBackChoke(t) ==
    /\ At(t, "PushBackChoke")
    /\ qlock = NoThread
    /\ queue' = PushBackToQueue(queue, worker[t].piece_index)
    /\ queuedBy' = Append(queuedBy, t)
    /\ pushes' = [pushes EXCEPT ![t] = @ + 1]
    /\ SetWorker(t, AfterBlock([worker[t] EXCEPT
                                    !.peer_pieces = MarkPiece(@, worker[t].piece_index)]))
    /\ UNCHANGED <<orchVars, peers, qlock, fileLock, fileCursor, disk, lost, chokes>>
    /\ UNCHANGED <<fnVars, served>>

\* A worker that writes whatever it received, without the digest test.
HashUnchecked(w) == TRUE

\* conn.rs:210-215: the digest of what was received against pieces[piece_index]
HashMatches(w) == PieceHash(w.piece_index) = Sha1(w.buf)

\* A worker that seeks and writes without taking the file mutex.
FileLockIgnored == TRUE

\* conn.rs:216, file.lock(): the file mutex is free
FileLockFree == fileLock = NoThread

\* conn.rs:215-219: on a matching digest lock the file and seek to the
\* piece's offset; a seek error returns Err and drops the lock.
SeekFile(t) ==
    /\ At(t, "HashCheck")
    /\ HashMatches(worker[t])
    /\ FileLockFree
    /\ \E ok \in Oks(t) :
          IF ok
          THEN /\ fileLock' = t
               /\ fileCursor' = Offset(worker[t].piece_index)
               /\ SetWorker(t, [worker[t] EXCEPT !.pc = "Write"])
               /\ UNCHANGED <<pushes, lost>>
          ELSE /\ SetWorker(t, ReturnsErr(worker[t], "Io"))
               /\ DiesClaiming(t)
               /\ UNCHANGED <<fileLock, fileCursor>>
    /\ UNCHANGED <<orchVars, peers, queue, qlock, disk, queuedBy, chokes>>
    /\ UNCHANGED <<fnVars, served>>

\* conn.rs:220-228: write the buffer at the file's position and drop the lock.
WriteFile(t) ==
    /\ At(t, "Write")
    /\ \E ok \in Oks(t) :
          IF ok
          THEN /\ disk' = IF fileCursor \in Offsets
                          THEN [disk EXCEPT ![fileCursor] = worker[t].buf]
                          ELSE disk
               /\ fileCursor' = fileCursor + ByteLen(worker[t].buf)
               /\ SetWorker(t, Loop(NoLocals(worker[t])))
               /\ ResetPushes(t)
               /\ UNCHANGED lost
          ELSE /\ SetWorker(t, ReturnsErr(worker[t], "Io"))
               /\ DiesClaiming(t)
               /\ UNCHANGED <<disk, fileCursor>>
    /\ fileLock' = IF fileLock = t THEN NoThread ELSE fileLock
    /\ UNCHANGED <<orchVars, peers, queue, qlock, queuedBy, chokes>>
    /\ UNCHANGED <<fnVars, served>>

\* conn.rs:225-227: on a digest mismatch push the index back.
PushBackHash(t) ==
    /\ At(t, "HashCheck")
    /\ ~HashMatches(worker[t])
    /\ qlock = NoThread
    /\ queue' = PushBackToQueue(queue, worker[t].piece_index)
    /\ queuedBy' = Append(queuedBy, t)
    /\ pushes' = [pushes EXCEPT ![t] = @ + 1]
    /\ SetWorker(t, Loop(NoLocals([worker[t] EXCEPT
                                       !.peer_pieces = MarkPiece(@, worker[t].piece_index)])))
    /\ UNCHANGED <<orchVars, peers, qlock, fileLock, fileCursor, disk, lost, chokes>>
    /\ UNCHANGED <<fnVars, served>>

\* thread.rs:40-43: handle_peer returned Err: remove the address; the error
\* itself is dropped.
RetErr(t) ==
    /\ At(t, "RetErr")
    /\ peers' = peers \ {worker[t].addr}
    /\ SetWorker(t, [worker[t] EXCEPT !.pc = "Done", !.err = "-", !.ioerr = FALSE])
    /\ UNCHANGED <<orchVars, queue, qlock, fileLock, fileCursor, disk, histVars>>
    /\ UNCHANGED <<fnVars, served>>

Worker(t) ==
    \/ Connect(t)
    \/ Handshake(t)
    \/ Preamble(t)
    \/ LoopTop(t)
    \/ WaitUnchoke(t)
    \/ Pop(t)
    \/ WriteNotInterested(t)
    \/ Request(t)
    \/ PushBackChoke(t)
    \/ SeekFile(t)
    \/ WriteFile(t)
    \/ PushBackHash(t)
    \/ RetErr(t)

Next ==
    \/ OrchStart
    \/ OrchAnnounce
    \/ OrchTryAdd
    \/ OrchCheckQueue
    \/ OrchJoin
    \/ OrchExit
    \/ \E t \in Threads : Worker(t)

Spec == Init /\ [][Next]_vars

\* ----------------------------------------------- a registry above its cap

\* Addresses of workers that returned Ok(()) on a handshake with another
\* torrent's info-hash (conn.rs:85-89): try_add removes an address only on
\* Err (thread.rs:40-45), so they are still registered.
StaleAddrs == (NumAddrs + 1) .. (NumAddrs + RegistryCap + 1)

\* main back at the top of its loop (main.rs:101) after its first announce
\* returned RegistryCap + 2 peers and the for loop of main.rs:163-183, which
\* does not look at the cap, spawned a worker for each: all but the first
\* have returned Ok(()) on the handshake, the first is about to connect.
\* The handles of the ended workers are left out: their join returns at once.
InitSaturated ==
    /\ orchPc = "LoopTop"
    /\ pending = <<>>
    /\ handles = <<1>>
    /\ joinIdx = 0
    /\ tryAddResult = "-"
    /\ peers = StaleAddrs \cup {1}
    /\ queue \in Perms(Pieces)
    /\ qlock = NoThread
    /\ fileLock = NoThread
    /\ fileCursor = 0
    /\ disk = [o \in Offsets |-> <<>>]
    /\ worker = [t \in Threads |->
                   IF t = 1 THEN [IdleWorker EXCEPT !.pc = "Connect", !.addr = 1]
                   ELSE IdleWorker]
    /\ queuedBy = [j \in 1 .. NumPieces |-> NoThread]
    /\ lost = {}
    /\ pushes = [t \in Threads |-> 0]
    /\ chokes = 0
    /\ served = {}
    /\ call = NoCall
    /\ ret = NoRet

\* The start of a run in which the peer at address 1 is served.
InitServed == SwarmInit /\ served = {1} /\ call = NoCall /\ ret = NoRet

\* The runs of the swarm in which the peer at address 1 behaves.
SpecServed == InitServed /\ [][Next]_vars

\* The runs of the swarm from the start of the process, and from a registry
\* above its cap.
SpecSaturated == (Init \/ InitSaturated) /\ [][Next]_vars

\* ----------------------------------------------------------------- bencode
\* bencode/src/decode.rs.  A buffer is a sequence of bytes (0 .. 255); the
\* cursor `pointer` counts from 0 as in the source.  A call yields Ok with
\* its value and the cursor it leaves, Err (a ParseError), or Panic (an
\* index or slice out of range, todo!()).

\* decode.rs:8-12
INTEGER_START == 105
STRING_DELIM == 58
DICTIONARY_START == 100
LIST_START == 108
END_OF_TYPE == 101

\* usize is four 16-bit limbs, least significant first (a 64-bit target);
\* the u32 of BencodeTypes::Integer (decode.rs:20) is two of them.
LimbBase == 65536
UsizeLimbs == 4
U32Limbs == 2

Ok(v, p) == [tag |-> "Ok", v |-> v, p |-> p]
ParseErr(kind, p) == [tag |-> "Err", v |-> kind, p |-> p]
Panic(p) == [tag |-> "Panic", v |-> "panic", p |-> p]

\* buf[p]
Byte(buf, p) == buf[p + 1]
\* &buf[a..b]
Slice(buf, a, b) == SubSeq(buf, a + 1, b)

\* u8::is_ascii_digit
IsDigit(b) == b >= 48 /\ b <= 57

\* str::from_utf8 (decode.rs:27-30).  The buffers of the model hold ASCII
\* and lone bytes above 127, which no UTF-8 text contains.
Utf8Ok(slice) == \A j \in DOMAIN slice : slice[j] < 128

RECURSIVE MulAdd(_, _)
\* limbs * 10 + carry; the last element of the result is the carry out
MulAdd(limbs, carry) ==
    IF limbs = <<>> THEN <<carry>>
    ELSE <<(Head(limbs) * 10 + carry) % LimbBase>>
             \o MulAdd(Tail(limbs), (Head(limbs) * 10 + carry) \div LimbBase)

ZeroUsize == [j \in 1 .. UsizeLimbs |-> 0]

RECURSIVE ParseDigits(_, _)
RECURSIVE Shifted(_, _)
\* usize::from_str over the digits, most significant first: Err once the
\* value no longer fits the usize
ParseDigits(digits, acc) ==
    IF digits = <<>> THEN Ok(acc, 0)
    ELSE Shifted(MulAdd(acc, Head(digits) - 48), Tail(digits))
Shifted(r, digits) ==
    IF r[UsizeLimbs + 1] > 0 THEN ParseErr("Int", 0)
    ELSE ParseDigits(digits, SubSeq(r, 1, UsizeLimbs))

\* str::parse::<usize>: an optional '+', then one or more digits
ParseUsize(digits) ==
    IF digits = <<>> \/ \E j \in DOMAIN digits : ~IsDigit(digits[j])
    THEN ParseErr("Int", 0)
    ELSE ParseDigits(digits, ZeroUsize)

\* decode.rs:32-35: utf-8, then str::parse
parse_to_usize(slice) ==
    IF ~Utf8Ok(slice) THEN ParseErr("Str", 0)
    ELSE ParseUsize(IF slice # <<>> /\ Head(slice) = 43 THEN Tail(slice) ELSE slice)

\* `as u32` (decode.rs:86): the low 32 bits
AsU32(limbs) == SubSeq(limbs, 1, U32Limbs)

\* A usize that is a length within reach of the buffers of the model.
Small(limbs) == \A j \in 2 .. UsizeLimbs : limbs[j] = 0
ToNat(limbs) == limbs[1]

RECURSIVE FindByte(_, _, _)
\* The scans of decode.rs:41-44 and 78-81: the first position from p on that
\* holds b, or -1 when buf[*pointer] runs off the buffer.
FindByte(buf, p, b) ==
    IF p >= Len(buf) THEN -1
    ELSE IF Byte(buf, p) = b THEN p
    ELSE FindByte(buf, p + 1, b)

\* The result r of a call, with the cursor at p
At2(r, p) == [r EXCEPT !.p = p]

\* decode.rs:46-53: the cursor after the delimiter at d, the length in temp
LenOf(temp, d) ==
    IF temp = <<48>> THEN Ok(ZeroUsize, d + 1) ELSE At2(parse_to_usize(temp), d + 1)

\* decode.rs:41-44: up to the delimiter at d
LenUpTo(d, pointer, buf) ==
    IF d = -1 THEN Panic(Len(buf)) ELSE LenOf(Slice(buf, pointer, d), d)

\* decode.rs:37-54
get_string_len(pointer, buf) == LenUpTo(FindByte(buf, pointer, STRING_DELIM), pointer, buf)

\* &buf[*pointer..len + *pointer] is in range
SliceInRange(pointer, len, buf) == Small(len) /\ ToNat(len) + pointer <= Len(buf)

\* decode.rs:69, parse_to_utf8 of the slice that ends at string_len
Utf8String(slice, string_len) ==
    IF Utf8Ok(slice) THEN Ok(slice, string_len) ELSE ParseErr("Str", string_len)

\* decode.rs:59-69, with n the result of get_string_len
StringOfLen(n, buf) ==
    IF n.tag # "Ok" THEN n
    ELSE IF n.v = ZeroUsize THEN Ok(<<>>, n.p)
    ELSE IF ~SliceInRange(n.p, n.v, buf) THEN Panic(n.p)
    ELSE Utf8String(Slice(buf, n.p, ToNat(n.v) + n.p), ToNat(n.v) + n.p)

\* decode.rs:56-70
decode_string(pointer, buf) == StringOfLen(get_string_len(pointer, buf), buf)

\* decode.rs:83-86, with n the result of parse_to_usize and e the place of 'e'
IntOf(n, e) == IF n.tag = "Ok" THEN Ok(AsU32(n.v), e + 1) ELSE At2(n, e + 1)

\* decode.rs:78-86, with e the place of 'e'
IntUpTo(e, pointer, buf) ==
    IF e = -1 THEN Panic(Len(buf))
    ELSE IntOf(parse_to_usize(Slice(buf, pointer + 1, e)), e)

\* decode.rs:72-87
decode_int(pointer, buf) == IntUpTo(FindByte(buf, pointer + 1, END_OF_TYPE), pointer, buf)

\* decode.rs:117 and 144, the chunk sizes of `pieces` and compact `peers`
PieceHashBytes == 20
PeerBytes == 6

\* slice.chunks_exact(n): the whole chunks, the remainder dropped
ChunksExact(slice, n) ==
    [k \in 1 .. (Len(slice) \div n) |-> SubSeq(slice, (k - 1) * n + 1, k * n)]

\* decode.rs:114-130, with n the result of get_string_len
PiecesOfLen(n, buf) ==
    IF n.tag # "Ok" THEN n
    ELSE IF ~SliceInRange(n.p, n.v, buf) THEN Panic(n.p)
    ELSE Ok(ChunksExact(Slice(buf, n.p, ToNat(n.v) + n.p), PieceHashBytes),
            ToNat(n.v) + n.p)

\* decode.rs:111-131
decode_pieces(pointer, buf) == PiecesOfLen(get_string_len(pointer, buf), buf)

\* The keys decode_dict looks at, as bytes: "info", "pieces", "peers", and
\* the key it adds, "info_hash".
KeyInfo == <<105, 110, 102, 111>>
KeyPieces == <<112, 105, 101, 99, 101, 115>>
KeyPeers == <<112, 101, 101, 114, 115>>
KeyInfoHash == <<105, 110, 102, 111, 95, 104, 97, 115, 104>>

\* A BencodeTypes value (decode.rs:17-25)
Value(type, v) == [type |-> type, v |-> v]

\* The Ok of a call wrapped in a BencodeTypes variant; `?` passes on the rest.
Wrap(type, r) == IF r.tag = "Ok" THEN Ok(Value(type, r.v), r.p) ELSE r

\* HashMap::insert on a map kept as a sequence of <<key, value>> pairs
Insert(dict, key, value) ==
    IF \E j \in DOMAIN dict : dict[j][1] = key
    THEN [j \in DOMAIN dict |-> IF dict[j][1] = key THEN <<key, value>> ELSE dict[j]]
    ELSE Append(dict, <<key, value>>)

\* HashMap::contains_key and the value of a key that is there
HasKey(dict, key) == \E j \in DOMAIN dict : dict[j][1] = key
Get(dict, key) == dict[CHOOSE j \in DOMAIN dict : dict[j][1] = key][2]

RECURSIVE decode_list(_, _)
RECURSIVE decode_dict(_, _)
RECURSIVE ListLoop(_, _, _)
RECURSIVE ListPush(_, _, _)
RECURSIVE DictLoop(_, _, _, _, _, _)
RECURSIVE DictKey(_, _, _, _)
RECURSIVE DictPush(_, _, _, _, _)

\* decode.rs:96-102, the element at the cursor of a list
ListItem(n, pointer, buf) ==
    IF IsDigit(n) THEN Wrap("String", decode_string(pointer, buf))
    ELSE IF n = INTEGER_START THEN Wrap("Integer", decode_int(pointer, buf))
    ELSE IF n = LIST_START THEN Wrap("List", decode_list(pointer, buf))
    ELSE IF n = DICTIONARY_START THEN Wrap("Dict", decode_dict(pointer, buf))
    ELSE Panic(pointer)

\* decode.rs:95-108, the while loop of decode_list and the step over 'e'
ListLoop(pointer, buf, list) ==
    IF pointer >= Len(buf) THEN Panic(pointer)
    ELSE IF Byte(buf, pointer) = END_OF_TYPE THEN Ok(list, pointer + 1)
    ELSE ListPush(ListItem(Byte(buf, pointer), pointer, buf), buf, list)

\* decode.rs:96, list.push of the element r, or `?`
ListPush(r, buf, list) ==
    IF r.tag # "Ok" THEN r ELSE ListLoop(r.p, buf, Append(list, r.v))

\* decode.rs:89-109
decode_list(pointer, buf) == ListLoop(pointer + 1, buf, <<>>)

\* decode.rs:143-156, the six-byte records
PeersCompact(items) ==
    Value("PeersCompact",
          [k \in DOMAIN items |-> <<SubSeq(items[k], 1, 4), items[k][5] * 256 + items[k][6]>>])

\* decode.rs:139-156, with n the result of get_string_len
PeersOfLen(n, buf) ==
    IF n.tag # "Ok" THEN n
    ELSE IF ~SliceInRange(n.p, n.v, buf) THEN Panic(n.p)
    ELSE Ok(PeersCompact(ChunksExact(Slice(buf, n.p, ToNat(n.v) + n.p), PeerBytes)),
            ToNat(n.v) + n.p)

\* decode.rs:133-157
decode_peers(pointer, buf) ==
    IF Byte(buf, pointer) = LIST_START
    THEN Wrap("List", decode_list(pointer, buf))
    ELSE PeersOfLen(get_string_len(pointer, buf), buf)

\* decode.rs:192-202, the value at the cursor of a dictionary
DictValue(n, pointer, buf, temp_key) ==
    IF IsDigit(n) /\ temp_key = KeyPieces THEN Wrap("Pieces", decode_pieces(pointer, buf))
    ELSE IF IsDigit(n) /\ temp_key = KeyPeers THEN decode_peers(pointer, buf)
    ELSE IF IsDigit(n) THEN Wrap("String", decode_string(pointer, buf))
    ELSE IF n = INTEGER_START THEN Wrap("Integer", decode_int(pointer, buf))
    ELSE IF n = LIST_START THEN Wrap("List", decode_list(pointer, buf))
    ELSE IF n = DICTIONARY_START THEN Wrap("Dict", decode_dict(pointer, buf))
    ELSE Panic(pointer)

\* decode.rs:159-163 and 208-213: the info_hash entry, over the bytes from
\* info_hash_start up to the cursor at the end of the loop
WithInfoHash(dict, buf, info_hash_start, pointer) ==
    IF info_hash_start # 0
    THEN Insert(dict, KeyInfoHash,
                Value("InfoHash", Sha1(Slice(buf, info_hash_start, pointer))))
    ELSE dict

\* decode.rs:182-218, the while loop of decode_dict and what follows it
DictLoop(pointer, buf, dict, is_key, temp_key, info_hash_start) ==
    IF pointer >= Len(buf) THEN Panic(pointer)
    ELSE IF Byte(buf, pointer) = END_OF_TYPE
    THEN Ok(WithInfoHash(dict, buf, info_hash_start, pointer), pointer + 1)
    ELSE IF is_key
    THEN DictKey(decode_string(pointer, buf), buf, dict, info_hash_start)
    ELSE DictPush(DictValue(Byte(buf, pointer), pointer, buf, temp_key), buf, dict,
                  temp_key, info_hash_start)

\* decode.rs:183-190, with k the result of decode_string
DictKey(k, buf, dict, info_hash_start) ==
    IF k.tag # "Ok" THEN k
    ELSE DictLoop(k.p, buf, dict, FALSE, k.v,
                  IF k.v = KeyInfo THEN k.p ELSE info_hash_start)

\* decode.rs:204-205, dict.insert of the value r, or `?`
DictPush(r, buf, dict, temp_key, info_hash_start) ==
    IF r.tag # "Ok" THEN r
    ELSE DictLoop(r.p, buf, Insert(dict, temp_key, r.v), TRUE, temp_key, info_hash_start)

\* decode.rs:165-219
decode_dict(pointer, buf) ==
    IF Len(buf) = 0 THEN ParseErr("BadFile", pointer)
    ELSE DictLoop(pointer + 1, buf, <<>>, TRUE, <<>>, 0)

\* ------------------------------------------------- wire and file functions

\* u32::to_be_bytes and u32::from_be_bytes
ToBeBytes(n) == <<(n \div 16777216) % 256, (n \div 65536) % 256, (n \div 256) % 256, n % 256>>
FromBeBytes(b) == ((b[1] * 256 + b[2]) * 256 + b[3]) * 256 + b[4]

\* conn.rs:233-245 on a whole payload: buf[0] is the id, the bits follow
read_bitfield(buf, peer_pieces) ==
    IF buf = <<>> THEN peer_pieces ELSE peer_pieces \cup ReadBitfield(Tail(buf))

\* message.rs:5-31, the variants of Message
Msg(kind, index, begin, length, piece) ==
    [kind |-> kind, index |-> index, begin |-> begin, length |-> length, piece |-> piece]

\* message.rs:33-100: the bytes written to buf; todo!() for BitField
as_bytes(m) ==
    CASE m.kind = "KeepAlive" -> Ok(ToBeBytes(0), 0)
      [] m.kind = "Choke" -> Ok(ToBeBytes(1) \o <<0>>, 0)
      [] m.kind = "UnChoke" -> Ok(ToBeBytes(1) \o <<1>>, 0)
      [] m.kind = "Interested" -> Ok(ToBeBytes(1) \o <<2>>, 0)
      [] m.kind = "NotInterested" -> Ok(ToBeBytes(1) \o <<3>>, 0)
      [] m.kind = "Have" -> Ok(ToBeBytes(5) \o <<4>> \o ToBeBytes(m.index), 0)
      [] m.kind = "BitField" -> Panic(0)
      [] m.kind = "Request" ->
            Ok(ToBeBytes(13) \o <<6>> \o ToBeBytes(m.index) \o ToBeBytes(m.begin)
                   \o ToBeBytes(m.length), 0)
      [] m.kind = "Piece" ->
            Ok(ToBeBytes(Len(m.piece) + 9) \o <<7>> \o ToBeBytes(m.index)
                   \o ToBeBytes(m.begin) \o m.piece, 0)
      [] m.kind = "Cancel" ->
            Ok(ToBeBytes(13) \o <<9>> \o ToBeBytes(m.index) \o ToBeBytes(m.begin)
                   \o ToBeBytes(m.length), 0)

\* `as u32` of a usize: the low 32 bits, 16 at a time
UsizeAsU32(n) == (n % 65536) + 65536 * ((n \div 65536) % 65536)

\* conn.rs:186-192, the request of block i of a piece of len bytes
RequestOfBlock(piece_index, len, i) ==
    Msg("Request", UsizeAsU32(piece_index), UsizeAsU32(i * BlockLen(len)),
        UsizeAsU32(RequestLen(i, len)), <<>>)

\* conn.rs:179-193: the requests of `for i in 0..num_blocks`, in the order sent
BlockPlan(piece_index, len) ==
    [k \in 1 .. NumBlocks(len) |-> RequestOfBlock(piece_index, len, k - 1)]

\* What read_stream hands back and the bytes it has left in the stream.
StreamOk(buf, rest) == [tag |-> "Ok", v |-> buf, rest |-> rest]
\* read_exact ran out of bytes: an Err, the stream drained
StreamErr == [tag |-> "Err", v |-> <<>>, rest |-> <<>>]

RECURSIVE ReadLenPrefix(_)
\* conn.rs:255-263: read four bytes at a time until they are not all zero
ReadLenPrefix(stream) ==
    IF Len(stream) < 4 THEN StreamErr
    ELSE IF FromBeBytes(SubSeq(stream, 1, 4)) # 0
    THEN StreamOk(SubSeq(stream, 1, 4), SubSeq(stream, 5, Len(stream)))
    ELSE ReadLenPrefix(SubSeq(stream, 5, Len(stream)))

\* conn.rs:264-279, with num the length read and rest the stream after it
ReadBody(num, rest) ==
    IF num = 0 THEN StreamOk(<<9>>, rest)
    ELSE IF Len(rest) < num THEN StreamErr
    ELSE StreamOk(SubSeq(rest, 1, num), SubSeq(rest, num + 1, Len(rest)))

\* conn.rs:264, with pre the length prefix read, or the Err of read_exact
AfterLenPrefix(pre) ==
    IF pre.tag = "Err" THEN StreamErr ELSE ReadBody(FromBeBytes(pre.v), pre.rest)

\* conn.rs:251-280
read_stream(stream) == AfterLenPrefix(ReadLenPrefix(stream))

\* File::seek(Start(cursor)) and File::read into a zeroed buffer of `size`
\* bytes (util.rs:63-72): the bytes the file has there, zeros after them.
ReadAt(file, cursor, size) ==
    [j \in 1 .. size |-> IF cursor + j <= Len(file) THEN file[cursor + j] ELSE 0]

\* util.rs:64-68, the size of the buffer of piece i
ScanSize(i, num, total_length, piece_len) ==
    IF i = num - 1 THEN total_length % piece_len ELSE piece_len

\* util.rs:46-85 (and main.rs:219-258 of rubit-cli, the same text)
check_download_percent(file, pieces, total_length, piece_len) ==
    IF Len(file) = 0 THEN {}
    ELSE {i \in 0 .. (Len(pieces) - 1) :
            Sha1(ReadAt(file, i * piece_len,
                        ScanSize(i, Len(pieces), total_length, piece_len)))
                = pieces[i + 1]}

\* A buffer written at the cursor instead of read: the file with `size` zero
\* bytes at the cursor.
FileAfterWrite(file, cursor, size) ==
    [j \in 1 .. (IF cursor + size > Len(file) THEN cursor + size ELSE Len(file)) |->
        IF j > cursor /\ j <= cursor + size THEN 0
        ELSE IF j <= Len(file) THEN file[j] ELSE 0]

\* The content of the file after File::seek(Start(cursor)) and File::read of
\* `size` bytes (util.rs:71-72): what it was.
FileAfterRead(file, cursor, size) == file

RECURSIVE FileAfterPieces(_, _, _, _, _)
\* The content of the file after the iterations i .. num - 1 of the loop.
FileAfterPieces(file, i, num, total_length, piece_len) ==
    IF i >= num THEN file
    ELSE FileAfterPieces(
            FileAfterRead(file, i * piece_len, ScanSize(i, num, total_length, piece_len)),
            i + 1, num, total_length, piece_len)

\* The content of the file when check_download_percent returns.
FileAfterScan(file, pieces, total_length, piece_len) ==
    IF Len(file) = 0 THEN file
    ELSE FileAfterPieces(file, 0, Len(pieces), total_length, piece_len)

\* -------------------------------------------------------------- metainfo
\* bencode/src/torrent_file.rs.  The keys of a metainfo file, as bytes:
\* "announce", "announce-list", "name", "length", "piece length".
KeyAnnounce == <<97, 110, 110, 111, 117, 110, 99, 101>>
KeyAnnounceList == <<97, 110, 110, 111, 117, 110, 99, 101, 45, 108, 105, 115, 116>>
KeyName == <<110, 97, 109, 101>>
KeyLength == <<108, 101, 110, 103, 116, 104>>
KeyPieceLength == <<112, 105, 101, 99, 101, 32, 108, 101, 110, 103, 116, 104>>

\* torrent_file.rs:20-33, unwrap_announce_vec: a list of lists of strings,
\* or the panic of "not a List" / "not a String"
unwrap_announce_vec(vec) ==
    IF \E j \in DOMAIN vec : vec[j].type # "List" THEN [tag |-> "Panic", v |-> <<>>]
    ELSE IF \E j \in DOMAIN vec : \E k \in DOMAIN vec[j].v : vec[j].v[k].type # "String"
    THEN [tag |-> "Panic", v |-> <<>>]
    ELSE [tag |-> "Some", v |-> [j \in DOMAIN vec |-> [k \in DOMAIN vec[j].v |-> vec[j].v[k].v]]]

\* dict has `key` with a value of the variant `type`: the let-else passes
HasTyped(dict, key, type) == HasKey(dict, key) /\ Get(dict, key).type = type

\* torrent_file.rs:69-76, with the announce list unwrapped
TorrentFileOf(dict, list) ==
    IF list.tag # "Some" THEN list
    ELSE [tag |-> "Some",
          v |-> [info_hash |-> Get(dict, KeyInfoHash).v,
                 announce |-> Get(dict, KeyAnnounce).v,
                 announce_list |-> list.v,
                 info |-> [name |-> Get(Get(dict, KeyInfo).v, KeyName).v,
                           length |-> Get(Get(dict, KeyInfo).v, KeyLength).v,
                           piece_length |-> Get(Get(dict, KeyInfo).v, KeyPieceLength).v,
                           pieces |-> Get(Get(dict, KeyInfo).v, KeyPieces).v]]]

\* torrent_file.rs:35-77, make_torrent_file: every field is taken with
\* `dict.remove(key)?` and a let-else that returns None
make_torrent_file(dict) ==
    IF ~HasTyped(dict, KeyInfoHash, "InfoHash") THEN [tag |-> "None", v |-> <<>>]
    ELSE IF ~HasTyped(dict, KeyAnnounce, "String") THEN [tag |-> "None", v |-> <<>>]
    ELSE IF ~HasTyped(dict, KeyInfo, "Dict") THEN [tag |-> "None", v |-> <<>>]
    ELSE IF ~HasTyped(Get(dict, KeyInfo).v, KeyName, "String") THEN [tag |-> "None", v |-> <<>>]
    ELSE IF ~HasTyped(Get(dict, KeyInfo).v, KeyLength, "Integer") THEN [tag |-> "None", v |-> <<>>]
    ELSE IF ~HasTyped(Get(dict, KeyInfo).v, KeyPieceLength, "Integer")
    THEN [tag |-> "None", v |-> <<>>]
    ELSE IF ~HasTyped(Get(dict, KeyInfo).v, KeyPieces, "Pieces") THEN [tag |-> "None", v |-> <<>>]
    ELSE IF ~HasTyped(dict, KeyAnnounceList, "List") THEN [tag |-> "None", v |-> <<>>]
    ELSE TorrentFileOf(dict, unwrap_announce_vec(Get(dict, KeyAnnounceList).v))

\* torrent_file.rs:79-100, TorrentFile::from on the result of decode_dict:
\* an Err and a None print a message and exit(1)
TorrentFileOfDecoded(decoded) ==
    IF decoded.tag = "Panic" THEN [tag |-> "Panic", v |-> <<>>]
    ELSE IF decoded.tag # "Ok" THEN [tag |-> "Exit", v |-> <<>>]
    ELSE IF make_torrent_file(decoded.v).tag = "None" THEN [tag |-> "Exit", v |-> <<>>]
    ELSE IF make_torrent_file(decoded.v).tag = "Panic" THEN [tag |-> "Panic", v |-> <<>>]
    ELSE [tag |-> "Ok", v |-> make_torrent_file(decoded.v).v]

\* torrent_file.rs:79-100, impl From<Vec<u8>> for TorrentFile
TorrentFile_from(buf) == TorrentFileOfDecoded(decode_dict(0, buf))

\* ----------------------------------------------------------------- tracker
\* rubit/src/tracker.rs and rubit/src/util.rs.  A URL is the bytes of its text.

\* The scheme names, as bytes: http, https, udp.
SchemeHttp == <<104, 116, 116, 112>>
SchemeHttps == <<104, 116, 116, 112, 115>>
SchemeUdp == <<117, 100, 112>>

\* u8::to_ascii_lowercase
ToAsciiLower(b) == IF b >= 65 /\ b <= 90 THEN b + 32 ELSE b
IsAsciiAlpha(b) == ToAsciiLower(b) >= 97 /\ ToAsciiLower(b) <= 122
\* The bytes a scheme may have after its first letter: letters, digits, + - .
IsSchemeByte(b) == IsAsciiAlpha(b) \/ IsDigit(b) \/ b \in {43, 45, 46}

\* Url::parse (util.rs:32-35) of a text with no base URL: the text must start
\* with a scheme (a letter, then scheme bytes, then ':'), which is stored in
\* lower case; anything else is an Err.
UrlParse(text) ==
    LET colon == FindByte(text, 0, STRING_DELIM)
    IN IF colon < 1 THEN ParseErr("Url", 0)
       ELSE IF ~IsAsciiAlpha(text[1]) THEN ParseErr("Url", 0)
       ELSE IF \E j \in 2 .. colon : ~IsSchemeByte(text[j]) THEN ParseErr("Url", 0)
       ELSE Ok([scheme |-> [j \in 1 .. colon |-> ToAsciiLower(text[j])], text |-> text], 0)

\* tracker.rs:97-106, Tracker::new
Tracker_new(url) ==
    CASE url.scheme = SchemeHttp -> Ok([url |-> url, protocol |-> "HTTP"], 0)
      [] url.scheme = SchemeHttps -> Ok([url |-> url, protocol |-> "HTTP"], 0)
      [] url.scheme = SchemeUdp -> Ok([url |-> url, protocol |-> "UDP"], 0)
      [] OTHER -> Panic(0)

\* announce_list.iter().flatten() (util.rs:26)
RECURSIVE Flatten(_)
Flatten(tiers) == IF tiers = <<>> THEN <<>> ELSE Head(tiers) \o Flatten(Tail(tiers))

RECURSIVE TrackerLoop(_, _)
\* util.rs:31-42, one pass of the for loop with the trackers pushed so far:
\* a text that does not parse is skipped, an Err of Tracker::new is skipped,
\* a panic of Tracker::new unwinds.
TrackerPush(urls, vec, parsed, built) ==
    IF parsed.tag # "Ok" THEN TrackerLoop(Tail(urls), vec)
    ELSE IF built.tag = "Panic" THEN Panic(0)
    ELSE IF built.tag # "Ok" THEN TrackerLoop(Tail(urls), vec)
    ELSE TrackerLoop(Tail(urls), Append(vec, built.v))

TrackerBuilt(urls, vec, parsed) ==
    TrackerPush(urls, vec, parsed,
                IF parsed.tag = "Ok" THEN Tracker_new(parsed.v) ELSE parsed)

TrackerLoop(urls, vec) ==
    IF urls = <<>> THEN Ok(vec, 0)
    ELSE TrackerBuilt(urls, vec, UrlParse(Head(urls)))

\* util.rs:25-44, get_tracker_list (the same text in main.rs:198-217 of rubit-cli)
get_tracker_list(announce, announce_list) ==
    TrackerLoop(Append(Flatten(announce_list), announce), <<>>)

\* A datagram received into the zeroed buffer rec_buf (tracker.rs:200-201,
\* 251-252): the u32 at `from`, bytes the datagram lacks being zero.
U32At(datagram, from) ==
    FromBeBytes([j \in 1 .. 4 |-> IF from + j <= Len(datagram) THEN datagram[from + j] ELSE 0])

\* rec_buf[8..16], the connection id, as its bytes
ConnectionIdOf(datagram) ==
    [j \in 1 .. 8 |-> IF 8 + j <= Len(datagram) THEN datagram[8 + j] ELSE 0]

\* tracker.rs:261-270: the six-byte chunks of rec_buf[20..] that are not zero
UdpPeers(datagram) ==
    LET n == IF Len(datagram) <= 20 THEN 0 ELSE (Len(datagram) - 20 + PeerBytes - 1) \div PeerBytes
        chunk(k) == [j \in 1 .. PeerBytes |->
                        IF 20 + (k - 1) * PeerBytes + j <= Len(datagram)
                        THEN datagram[20 + (k - 1) * PeerBytes + j] ELSE 0]
    IN SelectSeq([k \in 1 .. n |-> chunk(k)], LAMBDA c : c # [j \in 1 .. PeerBytes |-> 0])

\* The outcome of a UDP exchange, with the datagrams sent in it.
UdpOk(v, sent) == [tag |-> "Ok", v |-> v, sent |-> sent]
UdpErr(kind, sent) == [tag |-> "Err", v |-> kind, sent |-> sent]
\* recv_from returned an error instead of a datagram.
RecvErr == <<-1>>

\* A connect that takes the reply's connection id whatever it echoes.
connect_udp_unchecked(transaction_id, reply) ==
    IF reply = RecvErr THEN UdpErr("Io", <<"connect">>)
    ELSE IF U32At(reply, 0) # 0 THEN UdpErr("MissMatchAction", <<"connect">>)
    ELSE UdpOk(ConnectionIdOf(reply), <<"connect">>)

\* tracker.rs:187-215, connect_udp with the transaction id drawn and the
\* tracker's answer
connect_udp(transaction_id, reply) ==
    IF reply = RecvErr THEN UdpErr("Io", <<"connect">>)
    ELSE IF U32At(reply, 0) # 0 THEN UdpErr("MissMatchAction", <<"connect">>)
    ELSE IF U32At(reply, 4) # transaction_id
    THEN UdpErr("MissMatchTransactionId", <<"connect">>)
    ELSE UdpOk(ConnectionIdOf(reply), <<"connect">>)

\* tracker.rs:224-285, after connect_udp returned `connection`
AnnounceAfterConnect(connection, transaction_id, reply) ==
    IF connection.tag # "Ok" THEN connection
    ELSE IF reply = RecvErr THEN UdpErr("Io", <<"connect", "announce">>)
    ELSE IF U32At(reply, 0) # 1 THEN UdpErr("MissMatchAction", <<"connect", "announce">>)
    ELSE IF U32At(reply, 4) # transaction_id
    THEN UdpErr("MissMatchTransactionId", <<"connect", "announce">>)
    ELSE UdpOk([interval |-> U32At(reply, 8), incomplete |-> U32At(reply, 12),
                complete |-> U32At(reply, 16), peers |-> UdpPeers(reply)],
               <<"connect", "announce">>)

\* tracker.rs:218-286, announce_udp: the two transaction ids drawn and the
\* tracker's two answers
announce_udp(connect_id, connect_reply, announce_id, announce_reply) ==
    AnnounceAfterConnect(connect_udp(connect_id, connect_reply), announce_id, announce_reply)

\* The keys of a tracker's HTTP response, as bytes: "failure reason",
\* "interval", "min interval", "complete", "incomplete", "ip", "port".
KeyFailureReason == <<102, 97, 105, 108, 117, 114, 101, 32, 114, 101, 97, 115, 111, 110>>
KeyInterval == <<105, 110, 116, 101, 114, 118, 97, 108>>
KeyMinInterval == <<109, 105, 110, 32, 105, 110, 116, 101, 114, 118, 97, 108>>
KeyComplete == <<99, 111, 109, 112, 108, 101, 116, 101>>
KeyIncomplete == <<105, 110, 99, 111, 109, 112, 108, 101, 116, 101>>
KeyIp == <<105, 112>>
KeyPort == <<112, 111, 114, 116>>

\* An Option: Some(v), None, or the panic of an expect / unimplemented!().
Some(v) == [tag |-> "Some", v |-> v]
None == [tag |-> "None", v |-> <<>>]
Unwound == [tag |-> "Panic", v |-> <<>>]

\* bencode/src/util.rs:13-27, unwrap_string and unwrap_integer
unwrap_string(value) == IF value.type = "String" THEN Some(value.v) ELSE None
unwrap_integer(value) == IF value.type = "Integer" THEN Some(value.v) ELSE None

\* dict.remove(key): Some(value) or None
Remove(dict, key) == IF HasKey(dict, key) THEN Some(Get(dict, key)) ELSE None

RECURSIVE SplitDots(_, _)
\* string.split("."), with the part read so far
SplitDots(bytes, part) ==
    IF bytes = <<>> THEN <<part>>
    ELSE IF Head(bytes) = 46 THEN <<part>> \o SplitDots(Tail(bytes), <<>>)
    ELSE SplitDots(Tail(bytes), Append(part, Head(bytes)))

\* s.parse::<u8>() succeeds: decimal digits of a value up to 255
ParsesAsU8(part) ==
    /\ part # <<>>
    /\ \A j \in DOMAIN part : IsDigit(part[j])
    /\ ParseUsize(part).tag = "Ok"
    /\ Small(ParseUsize(part).v)
    /\ ToNat(ParseUsize(part).v) <= 255

\* bencode/src/util.rs:75-81, parse_ip: the four first parts, or a panic
parse_ip(string) ==
    IF \E j \in DOMAIN SplitDots(string, <<>>) : ~ParsesAsU8(SplitDots(string, <<>>)[j])
    THEN Unwound
    ELSE IF Len(SplitDots(string, <<>>)) < 4 THEN Unwound
    ELSE Some([j \in 1 .. 4 |-> ToNat(ParseUsize(SplitDots(string, <<>>)[j]).v)])

\* bencode/src/util.rs:88-101, one item of a peers list
PeerOfItem(item) ==
    IF item.type # "Dict" THEN Unwound
    ELSE IF ~HasKey(item.v, KeyIp) \/ ~HasKey(item.v, KeyPort) THEN Unwound
    ELSE IF Get(item.v, KeyIp).type # "String" \/ Get(item.v, KeyPort).type # "Integer"
    THEN Unwound
    ELSE IF parse_ip(Get(item.v, KeyIp).v).tag # "Some" THEN Unwound
    ELSE Some(<<parse_ip(Get(item.v, KeyIp).v).v, Get(item.v, KeyPort).v[1]>>)

\* bencode/src/util.rs:83-106, unwrap_peers
unwrap_peers(value) ==
    CASE value.type = "PeersCompact" -> Some(value.v)
      [] value.type = "List" ->
            IF \E j \in DOMAIN value.v : PeerOfItem(value.v[j]).tag # "Some"
            THEN Unwound
            ELSE Some([j \in DOMAIN value.v |-> PeerOfItem(value.v[j]).v])
      [] OTHER -> Unwound

\* tracker.rs:124-149, the ok response of a dictionary without "failure reason"
DoneResponse(dict) ==
    IF ~HasKey(dict, KeyInterval) THEN None
    ELSE IF unwrap_integer(Get(dict, KeyInterval)).tag # "Some" THEN None
    ELSE IF HasKey(dict, KeyMinInterval)
            /\ unwrap_integer(Get(dict, KeyMinInterval)).tag # "Some" THEN None
    ELSE IF ~HasKey(dict, KeyPeers) THEN None
    ELSE IF unwrap_peers(Get(dict, KeyPeers)).tag # "Some"
    THEN unwrap_peers(Get(dict, KeyPeers))
    ELSE Some([kind |-> "Done",
               interval |-> Get(dict, KeyInterval).v,
               min_interval |-> Remove(dict, KeyMinInterval),
               complete |-> IF HasKey(dict, KeyComplete)
                            THEN unwrap_integer(Get(dict, KeyComplete)) ELSE None,
               incomplete |-> IF HasKey(dict, KeyIncomplete)
                              THEN unwrap_integer(Get(dict, KeyIncomplete)) ELSE None,
               peers |-> unwrap_peers(Get(dict, KeyPeers)).v])

\* tracker.rs:117-149, with `decoded` the result of decode_dict: expect
\* panics on an Err, "failure reason" is looked at first
ResponseOfDict(decoded) ==
    IF decoded.tag # "Ok" THEN Unwound
    ELSE IF HasKey(decoded.v, KeyFailureReason)
    THEN IF unwrap_string(Get(decoded.v, KeyFailureReason)).tag = "Some"
         THEN Some([kind |-> "Failure",
                    failure_reason |-> Get(decoded.v, KeyFailureReason).v])
         ELSE None
    ELSE DoneResponse(decoded.v)

\* tracker.rs:115-150, decode_http_response
decode_http_response(response) == ResponseOfDict(decode_dict(0, response))

\* tracker.rs:180-183, the end of announce_http on the body read
AnnounceOfResponse(decoded) ==
    CASE decoded.tag = "Some" -> [tag |-> "Ok", v |-> decoded.v]
      [] decoded.tag = "None" -> [tag |-> "Err", v |-> "FailedDecode"]
      [] OTHER -> [tag |-> "Panic", v |-> "panic"]

\* tracker.rs:152-185, announce_http once the body of the response is read
announce_http(response_buf) == AnnounceOfResponse(decode_http_response(response_buf))

\* ------------------------------------------------- functions on their own
\* The inputs on which each function is applied on its own, as bytes; the
\* text of each is given above its set.

\* Well-formed bencoded strings:
\*   11:HelloWorld!
\*   0:
\*   4:spam
WellFormedStrings ==
    {<<49, 49, 58, 72, 101, 108, 108, 111, 87, 111, 114, 108, 100, 33>>,
     <<48, 58>>,
     <<52, 58, 115, 112, 97, 109>>}

\* Well-formed bencoded integers below 2^64:
\*   i5657e
\*   i0e
\*   i42e
\*   i4294967295e
\*   i4294967296e
\*   i18446744073709551615e
WellFormedInts ==
    {<<105, 53, 54, 53, 55, 101>>,
     <<105, 48, 101>>,
     <<105, 52, 50, 101>>,
     <<105, 52, 50, 57, 52, 57, 54, 55, 50, 57, 53, 101>>,
     <<105, 52, 50, 57, 52, 57, 54, 55, 50, 57, 54, 101>>,
     <<105, 49, 56, 52, 52, 54, 55, 52, 52, 48, 55, 51, 55, 48, 57, 53, 53, 49, 54, 49, 53, 101>>}

\* Bencoded integers of 2^64 or more:
\*   i18446744073709551616e
\*   i99999999999999999999e
OverflowInts ==
    {<<105, 49, 56, 52, 52, 54, 55, 52, 52, 48, 55, 51, 55, 48, 57, 53, 53, 49, 54, 49, 54, 101>>,
     <<105, 57, 57, 57, 57, 57, 57, 57, 57, 57, 57, 57, 57, 57, 57, 57, 57, 57, 57, 57, 57, 101>>}

\* Well-formed bencoded lists (the first is the list of the decode test):
\*   l11:HelloWorld!i5657el11:HelloWorld!i5657eed3:bar4:spam3:fooi42eee
\*   le
\*   li1ei2ee
WellFormedLists ==
    {<<108, 49, 49, 58, 72, 101, 108, 108, 111, 87, 111, 114, 108, 100, 33, 105, 53, 54, 53, 55, 101, 108, 49, 49, 58, 72, 101, 108, 108, 111, 87, 111, 114, 108, 100, 33, 105, 53, 54, 53, 55, 101, 101, 100, 51, 58, 98, 97, 114, 52, 58, 115, 112, 97, 109, 51, 58, 102, 111, 111, 105, 52, 50, 101, 101, 101>>,
     <<108, 101>>,
     <<108, 105, 49, 101, 105, 50, 101, 101>>}

\* Well-formed bencoded dictionaries (the first is the dictionary of the decode test):
\*   d11:HelloWorld!i42e4:listll4:testel4:testeee
\*   de
\*   d3:bar4:spam3:fooi42ee
WellFormedDicts ==
    {<<100, 49, 49, 58, 72, 101, 108, 108, 111, 87, 111, 114, 108, 100, 33, 105, 52, 50, 101, 52, 58, 108, 105, 115, 116, 108, 108, 52, 58, 116, 101, 115, 116, 101, 108, 52, 58, 116, 101, 115, 116, 101, 101, 101>>,
     <<100, 101>>,
     <<100, 51, 58, 98, 97, 114, 52, 58, 115, 112, 97, 109, 51, 58, 102, 111, 111, 105, 52, 50, 101, 101>>}

\* Strings cut short:
\*   5:ab
\*   11:Hello
\*   5
TruncatedStrings ==
    {<<53, 58, 97, 98>>,
     <<49, 49, 58, 72, 101, 108, 108, 111>>,
     <<53>>}

\* Integers cut short:
\*   i56
\*   i
TruncatedInts ==
    {<<105, 53, 54>>,
     <<105>>}

\* Lists cut short:
\*   li1e
\*   l4:spam
\*   l
TruncatedLists ==
    {<<108, 105, 49, 101>>,
     <<108, 52, 58, 115, 112, 97, 109>>,
     <<108>>}

\* Dictionaries cut short:
\*   d3:fooi1e
\*   d3:foo
\*   d
TruncatedDicts ==
    {<<100, 51, 58, 102, 111, 111, 105, 49, 101>>,
     <<100, 51, 58, 102, 111, 111>>,
     <<100>>}

\* Strings with a non-numeric length:
\*   1x:a
\*   x:a
BadLengthStrings ==
    {<<49, 120, 58, 97>>,
     <<120, 58, 97>>}

\* A list holding a string with a non-numeric length:
\*   l1x:ae
BadLengthLists ==
    {<<108, 49, 120, 58, 97, 101>>}

\* Dictionaries holding a string with a non-numeric length:
\*   dx:ai1ee
\*   d3:foo1x:ae
BadLengthDicts ==
    {<<100, 120, 58, 97, 105, 49, 101, 101>>,
     <<100, 51, 58, 102, 111, 111, 49, 120, 58, 97, 101>>}

\* Lists with a byte that starts no value:
\*   lxe
\*   li1e-e
UnknownByteLists ==
    {<<108, 120, 101>>,
     <<108, 105, 49, 101, 45, 101>>}

\* A dictionary with a byte that starts no value:
\*   d3:fooxe
UnknownByteDicts ==
    {<<100, 51, 58, 102, 111, 111, 120, 101>>}

\* Bytes before the value, so that the cursor starts at 0 and at 2:
\*   (nothing)
\*   xx
Leads ==
    {<<>>,
     <<120, 120>>}

\* Bytes after the value:
\*   (nothing)
\*   i1e
Tails ==
    {<<>>,
     <<105, 49, 101>>}

\* Values of the info key:
\*   d4:name1:xe
\*   d6:lengthi3e4:name1:xe
InfoValues ==
    {<<100, 52, 58, 110, 97, 109, 101, 49, 58, 120, 101>>,
     <<100, 54, 58, 108, 101, 110, 103, 116, 104, 105, 51, 101, 52, 58, 110, 97, 109, 101, 49, 58, 120, 101>>}

\* Entries before the info key:
\*   (nothing)
\*   8:announce1:a
BeforeInfo ==
    {<<>>,
     <<56, 58, 97, 110, 110, 111, 117, 110, 99, 101, 49, 58, 97>>}

\* Entries after the info key:
\*   (nothing)
\*   5:nodesle
\*   8:url-list1:u
AfterInfo ==
    {<<>>,
     <<53, 58, 110, 111, 100, 101, 115, 108, 101>>,
     <<56, 58, 117, 114, 108, 45, 108, 105, 115, 116, 49, 58, 117>>}

\* A call of a decode function: the cursor, the buffer, the encoded value
\* `enc` at the cursor, the kind of input, and the info value of a metainfo.
DecodeCall(fn, lead, enc, tail, kind, info) ==
    [fn |-> fn, pointer |-> Len(lead), buf |-> lead \o enc \o tail,
     enc |-> enc, kind |-> kind, info |-> info]

\* A well-formed value anywhere in a buffer; a malformed one is the whole buffer.
WellFormedCalls(fn, encs) ==
    {DecodeCall(fn, lead, enc, tail, "well-formed", <<>>) :
        lead \in Leads, enc \in encs, tail \in Tails}
MalformedCalls(fn, bufs, kind) ==
    {DecodeCall(fn, <<>>, b, <<>>, kind, <<>>) : b \in bufs}

\* A metainfo buffer: 'd', the entries before info, "4:info", the info
\* value, the entries after it, 'e'.
MetainfoBuf(pre, info, post) ==
    <<DICTIONARY_START>> \o pre \o <<52, STRING_DELIM>> \o KeyInfo \o info \o post
        \o <<END_OF_TYPE>>
MetainfoCalls ==
    {DecodeCall("decode_dict", <<>>, MetainfoBuf(pre, info, post), <<>>, "metainfo", info) :
        pre \in BeforeInfo, info \in InfoValues, post \in AfterInfo}

DecodeStringCalls ==
    WellFormedCalls("decode_string", WellFormedStrings)
        \cup MalformedCalls("decode_string", TruncatedStrings, "truncated")
        \cup MalformedCalls("decode_string", BadLengthStrings, "bad-length")
DecodeIntCalls ==
    WellFormedCalls("decode_int", WellFormedInts)
        \cup MalformedCalls("decode_int", OverflowInts, "overflow")
        \cup MalformedCalls("decode_int", TruncatedInts, "truncated")
DecodeListCalls ==
    WellFormedCalls("decode_list", WellFormedLists)
        \cup MalformedCalls("decode_list", TruncatedLists, "truncated")
        \cup MalformedCalls("decode_list", BadLengthLists, "bad-length")
        \cup MalformedCalls("decode_list", UnknownByteLists, "unknown-byte")
DecodeDictCalls ==
    WellFormedCalls("decode_dict", WellFormedDicts)
        \cup MetainfoCalls
        \cup MalformedCalls("decode_dict", TruncatedDicts, "truncated")
        \cup MalformedCalls("decode_dict", BadLengthDicts, "bad-length")
        \cup MalformedCalls("decode_dict", UnknownByteDicts, "unknown-byte")

\* Bytes of bitfield payload after the id.
MaxBitfieldBytes == 1
\* Bitfield payloads: the id 5, then every byte string up to that length, and
\* the payload [5, 0b10100000, 0b00010000].
BitfieldCalls ==
    {[fn |-> "read_bitfield", buf |-> <<5>> \o b] :
        b \in SeqsUpTo(0 .. 255, MaxBitfieldBytes) \cup {<<160, 16>>}}

\* Values of the u32 fields of a message, and blocks of a piece message.
FieldValues == {0, 1, 258, 16384}
Blocks == {<<>>, <<7>>, <<7, 8, 9>>}
MessageCalls ==
    {[fn |-> "as_bytes", m |-> Msg(k, 0, 0, 0, <<>>)] :
        k \in {"KeepAlive", "Choke", "UnChoke", "Interested", "NotInterested", "BitField"}}
    \cup {[fn |-> "as_bytes", m |-> Msg("Have", i, 0, 0, <<>>)] : i \in FieldValues}
    \cup {[fn |-> "as_bytes", m |-> Msg(k, i, b, l, <<>>)] :
            k \in {"Request", "Cancel"}, i \in {0, 1}, b \in {0, 16384}, l \in {1, 16384}}
    \cup {[fn |-> "as_bytes", m |-> Msg("Piece", i, b, 0, blk)] :
            i \in {0, 1}, b \in {0, 16384}, blk \in Blocks}

\* Frames a peer may have written to the stream: keep-alive, choke, unchoke,
\* have 1, and a piece frame with one byte of data.
WireFrames ==
    {ToBeBytes(0),
     ToBeBytes(1) \o <<0>>,
     ToBeBytes(1) \o <<1>>,
     ToBeBytes(5) \o <<4>> \o ToBeBytes(1),
     ToBeBytes(10) \o <<7>> \o ToBeBytes(0) \o ToBeBytes(0) \o <<7>>}
\* Frames in the stream at the time of a call.
MaxFrames == 2
RECURSIVE Concat(_)
Concat(ss) == IF ss = <<>> THEN <<>> ELSE Head(ss) \o Concat(Tail(ss))
\* One or more whole frames, then possibly the first bytes of another one.
StreamCalls ==
    {[fn |-> "read_stream", frames |-> fs, stream |-> Concat(fs) \o cut] :
        fs \in (SeqsUpTo(WireFrames, MaxFrames) \ {<<>>}), cut \in {<<>>, <<0, 0>>}}

\* The torrents of the resume scan: piece_length, and the lengths of a file
\* of two pieces, the second short or whole.
ScanPieceLen == 2
ScanLengths == {ScanPieceLen + 1, 2 * ScanPieceLen}
\* The true content of a torrent of that length, and its pieces' digests.
ScanContent(total) == [j \in 1 .. total |-> IF j % 3 = 0 THEN 0 ELSE 1]
ScanPieces(total) ==
    [k \in 1 .. ((total + ScanPieceLen - 1) \div ScanPieceLen) |->
        Sha1(SubSeq(ScanContent(total), (k - 1) * ScanPieceLen + 1,
                    IF k * ScanPieceLen <= total THEN k * ScanPieceLen ELSE total))]
\* Every non-empty file over {0, 1} no longer than the torrent.
ScanCalls ==
    UNION {{[fn |-> "check_download_percent", file |-> f, pieces |-> ScanPieces(total),
             total_length |-> total, piece_len |-> ScanPieceLen] :
               f \in (SeqsUpTo({0, 1}, total) \ {<<>>})} : total \in ScanLengths}

\* Tracker URLs:
\*   http://t   https://t   udp://t   HTTP://t   wss://t   t   ://t
UrlTexts ==
    {<<104, 116, 116, 112, 58, 47, 47, 116>>,
     <<104, 116, 116, 112, 115, 58, 47, 47, 116>>,
     <<117, 100, 112, 58, 47, 47, 116>>,
     <<72, 84, 84, 80, 58, 47, 47, 116>>,
     <<119, 115, 115, 58, 47, 47, 116>>,
     <<116>>,
     <<58, 47, 47, 116>>}
\* URLs in an announce-list.
MaxListUrls == 2
\* A parsed URL handed to Tracker::new.
TrackerNewCalls ==
    {[fn |-> "Tracker_new", url |-> UrlParse(u).v] : u \in {x \in UrlTexts : UrlParse(x).tag = "Ok"}}
\* The announce URL and an announce-list of one tier.
TrackerListCalls ==
    {[fn |-> "get_tracker_list", announce |-> a, announce_list |-> <<l>>] :
        a \in UrlTexts, l \in SeqsUpTo(UrlTexts, MaxListUrls)}

\* Transaction ids drawn by random(), and the ids a tracker may answer with.
TransactionIds == {0, 7}
ReplyIds == {0, 7, 9}
\* Actions a tracker may answer with: connect, announce, error.
ReplyActions == {0, 1, 3}
\* The tracker's answers: an action and a transaction id followed by 12 more
\* bytes and one peer, the same cut after the action, an empty datagram, and
\* no datagram at all.
UdpReplies ==
    {ToBeBytes(a) \o ToBeBytes(i) \o <<0, 0, 0, 1, 0, 0, 0, 2, 0, 0, 0, 3, 10, 0, 0, 1, 26, 225>> :
        a \in ReplyActions, i \in ReplyIds}
    \cup {ToBeBytes(a) : a \in ReplyActions}
    \cup {<<>>, RecvErr}
AnnounceUdpCalls ==
    {[fn |-> "announce_udp", connect_id |-> c, connect_reply |-> cr,
      announce_id |-> a, announce_reply |-> ar] :
        c \in TransactionIds, cr \in UdpReplies, a \in TransactionIds, ar \in UdpReplies}

\* Bodies with a failure reason:
\*   d14:failure reason1:xe
\*   d14:failure reason1:x8:intervali5e5:peers0:e
\*   d8:intervali5e14:failure reason1:xe
FailureBodies ==
    {<<100, 49, 52, 58, 102, 97, 105, 108, 117, 114, 101, 32, 114, 101, 97, 115, 111, 110, 49, 58, 120, 101>>,
     <<100, 49, 52, 58, 102, 97, 105, 108, 117, 114, 101, 32, 114, 101, 97, 115, 111, 110, 49, 58, 120, 56, 58, 105, 110, 116, 101, 114, 118, 97, 108, 105, 53, 101, 53, 58, 112, 101, 101, 114, 115, 48, 58, 101>>,
     <<100, 56, 58, 105, 110, 116, 101, 114, 118, 97, 108, 105, 53, 101, 49, 52, 58, 102, 97, 105, 108, 117, 114, 101, 32, 114, 101, 97, 115, 111, 110, 49, 58, 120, 101>>}
\* Bodies with interval and peers and no failure reason:
\*   d8:intervali5e5:peers6:\x0a\x00\x00\x01\x1a\xe1e
\*   d8:intervali5e12:min intervali3e5:peers0:e
\*   d8:completei1e10:incompletei2e8:intervali5e5:peersld2:ip7:1.2.3.44:porti6881eeee
\*   d8:complete1:x8:intervali5e5:peerslee
DoneBodies ==
    {<<100, 56, 58, 105, 110, 116, 101, 114, 118, 97, 108, 105, 53, 101, 53, 58, 112, 101, 101, 114, 115, 54, 58, 10, 0, 0, 1, 26, 225, 101>>,
     <<100, 56, 58, 105, 110, 116, 101, 114, 118, 97, 108, 105, 53, 101, 49, 50, 58, 109, 105, 110, 32, 105, 110, 116, 101, 114, 118, 97, 108, 105, 51, 101, 53, 58, 112, 101, 101, 114, 115, 48, 58, 101>>,
     <<100, 56, 58, 99, 111, 109, 112, 108, 101, 116, 101, 105, 49, 101, 49, 48, 58, 105, 110, 99, 111, 109, 112, 108, 101, 116, 101, 105, 50, 101, 56, 58, 105, 110, 116, 101, 114, 118, 97, 108, 105, 53, 101, 53, 58, 112, 101, 101, 114, 115, 108, 100, 50, 58, 105, 112, 55, 58, 49, 46, 50, 46, 51, 46, 52, 52, 58, 112, 111, 114, 116, 105, 54, 56, 56, 49, 101, 101, 101, 101>>,
     <<100, 56, 58, 99, 111, 109, 112, 108, 101, 116, 101, 49, 58, 120, 56, 58, 105, 110, 116, 101, 114, 118, 97, 108, 105, 53, 101, 53, 58, 112, 101, 101, 114, 115, 108, 101, 101>>}
\* Every other body: a field missing or of the wrong type, or no decodable dictionary:
\*   d8:intervali5ee
\*   d5:peers0:e
\*   d8:interval1:x5:peers0:e
\*   d8:intervali5e12:min interval1:x5:peers0:e
\*   d8:intervali5e5:peersi1ee
\*   d8:intervali5e5:peersld2:ip3:1.24:porti1eeee
\*   d14:failure reasoni1ee
\*   i5e
\*   (the empty body)
\*   d8:interval
\*   d1x:ae
\*   le
OtherBodies ==
    {<<100, 56, 58, 105, 110, 116, 101, 114, 118, 97, 108, 105, 53, 101, 101>>,
     <<100, 53, 58, 112, 101, 101, 114, 115, 48, 58, 101>>,
     <<100, 56, 58, 105, 110, 116, 101, 114, 118, 97, 108, 49, 58, 120, 53, 58, 112, 101, 101, 114, 115, 48, 58, 101>>,
     <<100, 56, 58, 105, 110, 116, 101, 114, 118, 97, 108, 105, 53, 101, 49, 50, 58, 109, 105, 110, 32, 105, 110, 116, 101, 114, 118, 97, 108, 49, 58, 120, 53, 58, 112, 101, 101, 114, 115, 48, 58, 101>>,
     <<100, 56, 58, 105, 110, 116, 101, 114, 118, 97, 108, 105, 53, 101, 53, 58, 112, 101, 101, 114, 115, 105, 49, 101, 101>>,
     <<100, 56, 58, 105, 110, 116, 101, 114, 118, 97, 108, 105, 53, 101, 53, 58, 112, 101, 101, 114, 115, 108, 100, 50, 58, 105, 112, 51, 58, 49, 46, 50, 52, 58, 112, 111, 114, 116, 105, 49, 101, 101, 101, 101>>,
     <<100, 49, 52, 58, 102, 97, 105, 108, 117, 114, 101, 32, 114, 101, 97, 115, 111, 110, 105, 49, 101, 101>>,
     <<105, 53, 101>>,
     <<>>,
     <<100, 56, 58, 105, 110, 116, 101, 114, 118, 97, 108>>,
     <<100, 49, 120, 58, 97, 101>>,
     <<108, 101>>}
HttpBodies(kind) ==
    CASE kind = "failure" -> FailureBodies
      [] kind = "done" -> DoneBodies
      [] kind = "other" -> OtherBodies
AnnounceHttpCalls ==
    UNION {{[fn |-> "announce_http", response_buf |-> r, kind |-> k] : r \in HttpBodies(k)} :
             k \in {"failure", "done", "other"}}

\* Metainfo files with every required field (the info value last), and the
\* announce-list present, absent, or an integer:
\*   d8:announce8:http://t[..]4:infod6:lengthi4e4:name1:x12:piece lengthi2e6:pieces20:<bytes 1..20>ee
\* with [..] one of   13:announce-listll8:http://uee   (nothing)   13:announce-listi1e
MetainfoWith(kind) ==
    CASE kind = "present" -> <<100, 56, 58, 97, 110, 110, 111, 117, 110, 99, 101, 56, 58, 104, 116, 116, 112, 58, 47, 47, 116, 49, 51, 58, 97, 110, 110, 111, 117, 110, 99, 101, 45, 108, 105, 115, 116, 108, 108, 56, 58, 104, 116, 116, 112, 58, 47, 47, 117, 101, 101, 52, 58, 105, 110, 102, 111, 100, 54, 58, 108, 101, 110, 103, 116, 104, 105, 52, 101, 52, 58, 110, 97, 109, 101, 49, 58, 120, 49, 50, 58, 112, 105, 101, 99, 101, 32, 108, 101, 110, 103, 116, 104, 105, 50, 101, 54, 58, 112, 105, 101, 99, 101, 115, 50, 48, 58, 1, 2, 3, 4, 5, 6, 7, 8, 9, 10, 11, 12, 13, 14, 15, 16, 17, 18, 19, 20, 101, 101>>
      [] kind = "absent" -> <<100, 56, 58, 97, 110, 110, 111, 117, 110, 99, 101, 56, 58, 104, 116, 116, 112, 58, 47, 47, 116, 52, 58, 105, 110, 102, 111, 100, 54, 58, 108, 101, 110, 103, 116, 104, 105, 52, 101, 52, 58, 110, 97, 109, 101, 49, 58, 120, 49, 50, 58, 112, 105, 101, 99, 101, 32, 108, 101, 110, 103, 116, 104, 105, 50, 101, 54, 58, 112, 105, 101, 99, 101, 115, 50, 48, 58, 1, 2, 3, 4, 5, 6, 7, 8, 9, 10, 11, 12, 13, 14, 15, 16, 17, 18, 19, 20, 101, 101>>
      [] kind = "mistyped" -> <<100, 56, 58, 97, 110, 110, 111, 117, 110, 99, 101, 56, 58, 104, 116, 116, 112, 58, 47, 47, 116, 49, 51, 58, 97, 110, 110, 111, 117, 110, 99, 101, 45, 108, 105, 115, 116, 105, 49, 101, 52, 58, 105, 110, 102, 111, 100, 54, 58, 108, 101, 110, 103, 116, 104, 105, 52, 101, 52, 58, 110, 97, 109, 101, 49, 58, 120, 49, 50, 58, 112, 105, 101, 99, 101, 32, 108, 101, 110, 103, 116, 104, 105, 50, 101, 54, 58, 112, 105, 101, 99, 101, 115, 50, 48, 58, 1, 2, 3, 4, 5, 6, 7, 8, 9, 10, 11, 12, 13, 14, 15, 16, 17, 18, 19, 20, 101, 101>>
TorrentFileCalls ==
    {[fn |-> "TorrentFile_from", buf |-> MetainfoWith(k), kind |-> k] :
        k \in {"present", "absent", "mistyped"}}

\* The decimal text of a length below 100.
DecimalText(n) == IF n < 10 THEN <<48 + n>> ELSE <<48 + (n \div 10), 48 + (n % 10)>>
\* A bencoded byte string of n bytes: the bytes 1, 2, .. n.
ByteString(n) == DecimalText(n) \o <<STRING_DELIM>> \o [j \in 1 .. n |-> j]
\* Lengths of a `pieces` string and of a compact `peers` string, in bytes.
PiecesLengths == {0, 20, 21, 39, 40}
PeersLengths == {0, 6, 7, 11, 12}
ChunkCalls ==
    {[fn |-> "decode_pieces", pointer |-> 0, buf |-> ByteString(n), size |-> n] :
        n \in PiecesLengths}
    \cup {[fn |-> "decode_peers", pointer |-> 0, buf |-> ByteString(n), size |-> n] :
            n \in PeersLengths}

\* Piece sizes around the block size and its multiples, the sizes of the
\* torrent of the run, and two of many blocks.
PieceSizes ==
    {1, 2, 7232, 16383, 16384, 16385, 32767, 32768, 32769, 40000, 49152,
     65535, 65536, 65537, 1000000, 16777221}
\* The pieces of one torrent a call walks through.
MaxScanPieces == 8

\* Torrents by length and piece length (u32, torrent_file.rs:8-9) with
\* pieces.len() = ceil(length / piece_length): exact multiples, a short last
\* piece, a single piece shorter than piece_length.
PieceSizeCalls ==
    {c \in {[fn |-> "piece_len", length |-> l, piece_length |-> p,
             num_pieces |-> (l + p - 1) \div p] :
                l \in {1, 2, 3, 5, 6, 7, 8, 32768, 40000, 65536, 100000},
                p \in {1, 2, 3, 4, 16384, 32768, 40001}} :
        c.num_pieces <= MaxScanPieces}

BlockPlanCalls ==
    {[fn |-> "block_plan", piece_index |-> i, piece_len |-> n] : i \in {0, 1}, n \in PieceSizes}

FnInit ==
    /\ SwarmInit
    /\ served = {}
    /\ ret = NoRet
    /\ \/ call \in DecodeStringCalls
       \/ call \in DecodeIntCalls
       \/ call \in DecodeListCalls
       \/ call \in DecodeDictCalls
       \/ call \in BitfieldCalls
       \/ call \in MessageCalls
       \/ call \in StreamCalls
       \/ call \in ScanCalls
       \/ call \in TrackerNewCalls
       \/ call \in TrackerListCalls
       \/ call \in AnnounceUdpCalls
       \/ call \in AnnounceHttpCalls
       \/ call \in TorrentFileCalls
       \/ call \in ChunkCalls
       \/ call \in BlockPlanCalls
       \/ call \in PieceSizeCalls

\* A function that has not been applied yet is applied to its arguments.
Pending(fn) == call.fn = fn /\ ret.tag = "none"
Returns(r) == ret' = r /\ UNCHANGED <<call, swarmVars, served>>

CallDecodeString == Pending("decode_string") /\ Returns(decode_string(call.pointer, call.buf))
CallDecodeInt == Pending("decode_int") /\ Returns(decode_int(call.pointer, call.buf))
CallDecodeList == Pending("decode_list") /\ Returns(decode_list(call.pointer, call.buf))
CallDecodeDict == Pending("decode_dict") /\ Returns(decode_dict(call.pointer, call.buf))
CallReadBitfield ==
    Pending("read_bitfield") /\ Returns([tag |-> "Ok", v |-> read_bitfield(call.buf, {})])
CallAsBytes == Pending("as_bytes") /\ Returns(as_bytes(call.m))
CallReadStream == Pending("read_stream") /\ Returns(read_stream(call.stream))
CallCheckDownloadPercent ==
    /\ Pending("check_download_percent")
    /\ Returns([tag |-> "Ok",
                v |-> check_download_percent(call.file, call.pieces, call.total_length,
                                             call.piece_len),
                file |-> FileAfterScan(call.file, call.pieces, call.total_length,
                                       call.piece_len)])
CallTrackerNew == Pending("Tracker_new") /\ Returns(Tracker_new(call.url))
CallGetTrackerList ==
    Pending("get_tracker_list") /\ Returns(get_tracker_list(call.announce, call.announce_list))
CallAnnounceUdp ==
    /\ Pending("announce_udp")
    /\ Returns(announce_udp(call.connect_id, call.connect_reply,
                            call.announce_id, call.announce_reply))
CallAnnounceHttp == Pending("announce_http") /\ Returns(announce_http(call.response_buf))
CallTorrentFileFrom == Pending("TorrentFile_from") /\ Returns(TorrentFile_from(call.buf))
CallDecodePieces == Pending("decode_pieces") /\ Returns(decode_pieces(call.pointer, call.buf))
CallDecodePeers == Pending("decode_peers") /\ Returns(decode_peers(call.pointer, call.buf))
\* The scanner is run again on the file the first run left, nothing having
\* happened in between.
CallCheckDownloadPercentAgain ==
    /\ call.fn = "check_download_percent"
    /\ ret.tag = "Ok"
    /\ Returns([tag |-> "Rescan",
                first |-> ret.v,
                v |-> check_download_percent(ret.file, call.pieces, call.total_length,
                                             call.piece_len),
                file |-> FileAfterScan(ret.file, call.pieces, call.total_length,
                                       call.piece_len)])

\* The requests the worker sends for one claimed piece when every block is
\* served.
CallBlockPlan ==
    /\ Pending("block_plan")
    /\ Returns([tag |-> "Ok", v |-> BlockPlan(call.piece_index, call.piece_len)])

\* piece_len as the worker computes it for each index of the torrent.
CallPieceLen ==
    /\ Pending("piece_len")
    /\ Returns([tag |-> "Ok",
                v |-> [k \in 1 .. call.num_pieces |->
                          piece_len_of(k - 1, call.num_pieces, call.length,
                                       call.piece_length)]])

FnNext ==
    \/ CallDecodeString
    \/ CallDecodeInt
    \/ CallDecodeList
    \/ CallDecodeDict
    \/ CallReadBitfield
    \/ CallAsBytes
    \/ CallReadStream
    \/ CallCheckDownloadPercent
    \/ CallCheckDownloadPercentAgain
    \/ CallTrackerNew
    \/ CallGetTrackerList
    \/ CallAnnounceUdp
    \/ CallAnnounceHttp
    \/ CallTorrentFileFrom
    \/ CallDecodePieces
    \/ CallDecodePeers
    \/ CallBlockPlan
    \/ CallPieceLen

FnSpec == FnInit /\ [][FnNext]_vars

\* ------------------------------------------------------------------ claims

\* A worker thread that has been spawned and has not ended.
Live(t) == worker[t].pc \notin {"Idle", "Done", "Panicked"}

\* The positions at which a worker holds a claimed piece index.
ClaimPcs == {"Request", "PushBackChoke", "HashCheck", "Write"}

\* The positions at which a worker reads or writes its socket or the file.
IoPcs == {"Connect", "Handshake", "Preamble", "LoopTop", "WaitUnchoke",
          "WriteNotInterested", "Request", "Write"}

OnDisk == {i \in Pieces : Sha1(disk[Offset(i)]) = PieceHash(i)}
InQueue == {queue[j] : j \in DOMAIN queue}
Claimed == {worker[t].piece_index : t \in {u \in Threads : worker[u].pc \in ClaimPcs}}

\* C1: a worker reaches the file write only with a buffer whose SHA-1 is
\* pieces[piece_index], and every piece region of the file that holds data
\* holds data whose SHA-1 is that piece's digest.
C1_WrittenOnlyIfVerified ==
    /\ \A t \in Threads :
          worker[t].pc = "Write" => Sha1(worker[t].buf) = PieceHash(worker[t].piece_index)
    /\ \A i \in Pieces :
          disk[Offset(i)] # <<>> => Sha1(disk[Offset(i)]) = PieceHash(i)

\* C1 witness: the run started with a piece missing and the workers have
\* since written every missing piece.
C1_Witness ==
    /\ orchPc \notin {"Start", "Exit0"}
    /\ \A i \in Pieces : disk[Offset(i)] = PieceContent(i)

\* C2: no two live workers have the same socket address.
C2_OneWorkerPerAddr ==
    \A t1, t2 \in Threads :
        (t1 # t2 /\ Live(t1) /\ Live(t2)) => worker[t1].addr # worker[t2].addr

\* C2 witness: try_add has just returned None for an address whose worker
\* is still running.
C2_Witness ==
    /\ tryAddResult = "None"
    /\ \E t \in Threads : Live(t) /\ worker[t].addr \in peers

\* C3: the registry holds only addresses of workers that are still running.
C3_RegistryOnlyLive ==
    \A a \in peers : \E t \in Threads : Live(t) /\ worker[t].addr = a

\* No worker is in the middle of a pop, a push or a write.
Quiescent == orchPc # "Start" /\ qlock = NoThread /\ fileLock = NoThread

\* C4 as claimed: at every quiescent point every piece index is verified on
\* disk, in the queue, or claimed by a live worker.
C4_QueueConservation ==
    Quiescent => (OnDisk \cup InQueue \cup Claimed) = Pieces

\* C4 as amended: at every quiescent point every piece index is verified on
\* disk, in the queue, claimed by a live worker, or was held by a worker
\* whose thread ended before it wrote the piece or pushed it back.
C4_ConservationUpToLoss ==
    Quiescent => (OnDisk \cup InQueue \cup Claimed \cup lost) = Pieces

\* C4 witness: a quiescent point at which an index dropped by a dead worker
\* is in none of the three sets.
C4_Witness ==
    /\ Quiescent
    /\ \E i \in lost : i \notin (OnDisk \cup InQueue \cup Claimed)

\* C5: two copies of an index in the queue were pushed there by two
\* different workers.
C5_QueueUnique ==
    \A j, k \in DOMAIN queue :
        (j < k /\ queue[j] = queue[k])
            => /\ queuedBy[j] # NoThread
               /\ queuedBy[k] # NoThread
               /\ queuedBy[j] # queuedBy[k]

\* C6: after a choke in the middle of a piece the worker pushes the index
\* back once and goes back to the outer loop: while peer_state is Choked it
\* never requests a block, checks a hash or writes, and it has pushed its
\* piece back at most once.
C6_ChokeAbandonsPiece ==
    \A t \in Threads :
        worker[t].state = "Choked"
            => /\ worker[t].pc \notin {"Request", "HashCheck", "Write"}
               /\ pushes[t] <= 1

\* C7: no worker is at a socket or file operation while it holds the queue lock.
C7_NoIoUnderQueueLock ==
    \A t \in Threads : worker[t].pc \in IoPcs => qlock # t

\* C8: at most one worker is between its seek and the end of its write, it
\* holds the file lock, and the file position is still the offset of its piece.
C8_SeekWriteAtomic ==
    /\ \A t1, t2 \in Threads :
          (worker[t1].pc = "Write" /\ worker[t2].pc = "Write") => t1 = t2
    /\ \A t \in Threads :
          worker[t].pc = "Write"
              => fileLock = t /\ fileCursor = Offset(worker[t].piece_index)

\* C8 witness: one worker is between seek and write while another, with a
\* verified buffer of its own, waits for the file lock.
C8_Witness ==
    \E t1, t2 \in Threads :
        /\ t1 # t2
        /\ worker[t1].pc = "Write"
        /\ worker[t2].pc = "HashCheck"
        /\ HashMatches(worker[t2])

\* C9: no frame a peer sends makes the process abort: main never panics on
\* the join of a worker.
C9_WorkerErrorsNotFatal == orchPc # "PanicJoin"

\* C10: main leaves its loop only with the queue empty and the registry empty.
C10_LeavesLoopWhenAllDone ==
    [][(orchPc = "Spawn" /\ orchPc' = "Join") => (queue = <<>> /\ peers = {})]_vars

\* The process has ended: main has returned, exited or panicked.
Terminated == ~ProcessAlive

\* C11: once the queue has drained with no piece in flight and every piece
\* on disk, the process has ended or some thread can still take a step that
\* changes the state: main is never left in its loop with nothing that can
\* get it out.
C11_DrainedCanTerminate ==
    (orchPc # "Start" /\ queue = <<>> /\ Claimed = {} /\ OnDisk = Pieces)
        => (Terminated \/ ENABLED <<Next>>_vars)

\* C12: neither an announce error nor a tracker failure response ends main:
\* main never panics on a response.
C12_TrackerErrorsSwallowed == orchPc # "PanicFailure"

\* ------------------------------------------- claims about single functions

\* The function fn has been applied and has returned.
Returned(fn) == call.fn = fn /\ ret.tag # "none"

DecodeFns == {"decode_string", "decode_int", "decode_list", "decode_dict"}

RECURSIVE DecimalValue(_, _)
\* The number a decimal denotes, exactly: 16-bit limbs, as many as it takes.
DecimalValue(digits, acc) ==
    IF digits = <<>> THEN acc
    ELSE DecimalValue(Tail(digits), MulAdd(acc, Head(digits) - 48))

RECURSIVE Canon(_)
\* A number without its leading zero limbs.
Canon(limbs) ==
    IF limbs # <<>> /\ limbs[Len(limbs)] = 0
    THEN Canon(SubSeq(limbs, 1, Len(limbs) - 1))
    ELSE limbs

\* The number between the 'i' and the 'e' of an encoded integer.
EncodedInt(enc) == Canon(DecimalValue(SubSeq(enc, 2, Len(enc) - 1), <<>>))

\* The bytes after the ':' of an encoded string.
EncodedString(enc) == SubSeq(enc, FindByte(enc, 0, STRING_DELIM) + 2, Len(enc))

\* C13: the info_hash of a metainfo buffer is the SHA-1 of the bytes of the
\* info value, from its first byte to its own terminating 'e', whatever
\* entries come before or after the info key.
C13_InfoHashRange ==
    (Returned("decode_dict") /\ call.kind = "metainfo")
        => /\ ret.tag = "Ok"
           /\ HasKey(ret.v, KeyInfoHash)
           /\ Get(ret.v, KeyInfoHash) = Value("InfoHash", Sha1(call.info))

\* C14: on a well-formed string, integer, list or dictionary at cursor c the
\* decode function returns Ok and leaves the cursor at c plus the encoded
\* length; the value of an integer is the number encoded and the value of
\* a string is its bytes.
C14_DecodeAdvancesCursor ==
    (call.fn \in DecodeFns /\ ret.tag # "none" /\ call.kind = "well-formed")
        => /\ ret.tag = "Ok"
           /\ ret.p = call.pointer + Len(call.enc)
           /\ call.fn = "decode_int" => Canon(ret.v) = EncodedInt(call.enc)
           /\ call.fn = "decode_string" => ret.v = EncodedString(call.enc)

\* C15: on a buffer that is cut short, has a non-numeric length or has a
\* byte that starts no value, decoding returns a parse failure.
C15_MalformedIsParseFailure ==
    (call.fn \in DecodeFns /\ ret.tag # "none"
        /\ call.kind \in {"truncated", "bad-length", "unknown-byte"})
        => ret.tag = "Err"

\* C16: decode_int returns the number encoded when it is below 2^64 and
\* fails when it is 2^64 or more.
C16_IntegerIs64Bit ==
    (Returned("decode_int") /\ call.kind \in {"well-formed", "overflow"})
        => IF Len(EncodedInt(call.enc)) <= UsizeLimbs
           THEN ret.tag = "Ok" /\ Canon(ret.v) = EncodedInt(call.enc)
           ELSE ret.tag = "Err"

\* C17: read_bitfield inserts piece 8*k + b exactly when bit (7 - b) of
\* payload byte k is set.
C17_BitfieldMsbFirst ==
    Returned("read_bitfield")
        => ret.v = {p \in 0 .. (8 * (Len(call.buf) - 1) - 1) :
                      MsbBitIsSet(call.buf[(p \div 8) + 2], p % 8)}

\* The ids of the message table.
MessageId(kind) ==
    CASE kind = "Choke" -> 0
      [] kind = "UnChoke" -> 1
      [] kind = "Interested" -> 2
      [] kind = "NotInterested" -> 3
      [] kind = "Have" -> 4
      [] kind = "Request" -> 6
      [] kind = "Piece" -> 7
      [] kind = "Cancel" -> 8

\* C18: as_bytes of a message of the table yields a frame whose four-byte
\* big-endian prefix counts the bytes after it and whose first payload byte
\* is the id of the table; keep-alive is the zero prefix alone.
C18_FrameLayout ==
    (Returned("as_bytes") /\ call.m.kind # "BitField")
        => /\ ret.tag = "Ok"
           /\ FromBeBytes(SubSeq(ret.v, 1, 4)) = Len(ret.v) - 4
           /\ IF call.m.kind = "KeepAlive"
              THEN ret.v = <<0, 0, 0, 0>>
              ELSE ret.v[5] = MessageId(call.m.kind)

\* C19: read_stream consumes the first frame of the stream and nothing of
\* what follows it, and yields the payload of a frame that is no keep-alive.
C19_OneFramePerCall ==
    Returned("read_stream")
        => /\ ret.tag = "Ok"
           /\ ret.rest = SubSeq(call.stream, Len(call.frames[1]) + 1, Len(call.stream))
           /\ Len(call.frames[1]) > 4
                 => ret.v = SubSeq(call.frames[1], 5, Len(call.frames[1]))

\* The size of piece i of a torrent: the last piece is length mod
\* piece_length when that is not zero, piece_length otherwise.
PieceSize(i, num, total_length, piece_len) ==
    IF i = num - 1 /\ total_length % piece_len # 0
    THEN total_length % piece_len
    ELSE piece_len

\* C20: on a file as long as the torrent, the resume scanner returns the
\* indices whose piece_size bytes at offset i * piece_length hash to pieces[i].
C20_ResumeScan ==
    (Returned("check_download_percent") /\ Len(call.file) = call.total_length)
        => ret.v = {i \in 0 .. (Len(call.pieces) - 1) :
                      Sha1(SubSeq(call.file, i * call.piece_len + 1,
                                  i * call.piece_len
                                    + PieceSize(i, Len(call.pieces), call.total_length,
                                                call.piece_len)))
                          = call.pieces[i + 1]}

RECURSIVE Supported(_)
Supported(urls) ==
    IF urls = <<>> THEN <<>>
    ELSE IF UrlParse(Head(urls)).tag = "Ok"
            /\ UrlParse(Head(urls)).v.scheme \in {SchemeHttp, SchemeHttps, SchemeUdp}
         THEN <<Head(urls)>> \o Supported(Tail(urls))
         ELSE Supported(Tail(urls))

\* C22: Tracker::new returns HTTP for http and https, UDP for udp and an
\* error value for every other scheme; get_tracker_list returns the trackers
\* of the URLs that parse and have a supported scheme, in order, and skips
\* the others.
C22_UnsupportedSchemeIsError ==
    /\ Returned("Tracker_new")
          => IF call.url.scheme \in {SchemeHttp, SchemeHttps}
             THEN ret.tag = "Ok" /\ ret.v.protocol = "HTTP"
             ELSE IF call.url.scheme = SchemeUdp
             THEN ret.tag = "Ok" /\ ret.v.protocol = "UDP"
             ELSE ret.tag = "Err"
    /\ Returned("get_tracker_list")
          => /\ ret.tag = "Ok"
             /\ [j \in 1 .. Len(ret.v) |-> ret.v[j].url.text]
                  = Supported(Append(Flatten(call.announce_list), call.announce))

\* A reply, as received into the zeroed buffer, has the action `action` and
\* the transaction id `id`.
ReplyMatches(reply, action, id) ==
    reply # RecvErr /\ U32At(reply, 0) = action /\ U32At(reply, 4) = id
ReplyActionIs(reply, action) == reply # RecvErr /\ U32At(reply, 0) = action

\* C23: when both datagrams arrive, announce_udp returns an ok response
\* exactly when the connect reply has action 0 and the connect transaction
\* id and the announce reply has action 1 and the announce transaction id;
\* otherwise it returns MissMatchAction when the action of the first reply
\* at fault is wrong and MissMatchTransactionId when only its id is, and
\* after a failed connect no announce request is sent.
C23_UdpAnnounceChecksReplies ==
    (Returned("announce_udp") /\ call.connect_reply # RecvErr
        /\ (ReplyMatches(call.connect_reply, 0, call.connect_id)
                => call.announce_reply # RecvErr))
        => IF ~ReplyMatches(call.connect_reply, 0, call.connect_id)
           THEN /\ ret.tag = "Err"
                /\ ret.sent = <<"connect">>
                /\ ret.v = IF ReplyActionIs(call.connect_reply, 0)
                           THEN "MissMatchTransactionId" ELSE "MissMatchAction"
           ELSE IF ~ReplyMatches(call.announce_reply, 1, call.announce_id)
           THEN /\ ret.tag = "Err"
                /\ ret.v = IF ReplyActionIs(call.announce_reply, 1)
                           THEN "MissMatchTransactionId" ELSE "MissMatchAction"
           ELSE ret.tag = "Ok"

\* A connect reply that echoes another transaction id has been rejected
\* before any announce request was sent.
C23_Witness ==
    /\ Returned("announce_udp")
    /\ Len(call.connect_reply) >= 8
    /\ ReplyActionIs(call.connect_reply, 0)
    /\ U32At(call.connect_reply, 4) # call.connect_id
    /\ ret.v = "MissMatchTransactionId"
    /\ ret.sent = <<"connect">>

\* C24: a body that is a dictionary with a failure reason yields a failure
\* response whatever other keys it has; otherwise a dictionary with interval
\* and peers yields an ok response; every other body yields an announce
\* error and never an abort.
C24_HttpResponseClassified ==
    Returned("announce_http")
        => CASE call.kind = "failure" -> ret.tag = "Ok" /\ ret.v.kind = "Failure"
             [] call.kind = "done" -> ret.tag = "Ok" /\ ret.v.kind = "Done"
             [] call.kind = "other" -> ret.tag = "Err"

\* C25: a metainfo file with info_hash, announce, info.name, info.length,
\* info.piece length and info.pieces is projected to a TorrentFile whether
\* its announce-list is present, absent or of the wrong type; a mistyped
\* announce-list is dropped.
C25_OptionalFieldsNotFatal ==
    Returned("TorrentFile_from")
        => /\ ret.tag = "Ok"
           /\ Len(ret.v.info.pieces) = 1
           /\ call.kind = "present" <=> ret.v.announce_list # <<>>

\* C26: a pieces string whose length is no multiple of 20 and a compact
\* peers string whose length is no multiple of 6 are rejected; when decoding
\* succeeds the number of records is the length divided by the record size
\* and no byte is dropped.
C26_WholeRecordsOnly ==
    /\ Returned("decode_pieces")
          => IF call.size % PieceHashBytes = 0
             THEN ret.tag = "Ok" /\ Len(ret.v) * PieceHashBytes = call.size
             ELSE ret.tag = "Err"
    /\ Returned("decode_peers")
          => IF call.size % PeerBytes = 0
             THEN ret.tag = "Ok" /\ Len(ret.v.v) * PeerBytes = call.size
             ELSE ret.tag = "Err"

\* C27: a worker about to send the request of a block (conn.rs:186) has
\* sent interested and its peer_state is UnChoked: no request is sent
\* between a choke and the next unchoke.
C27_RequestOnlyWhileUnchoked ==
    \A t \in Threads :
        worker[t].pc = "Request"
            => worker[t].state = "UnChoked" /\ worker[t].my_state = "Interested"

\* C28: the indices advertised by the have or bitfield frame a worker has
\* just read, at any point of the connection, are in its peer_pieces.
C28_AdvertisementsRecorded ==
    \A t \in Threads : worker[t].heard \subseteq worker[t].peer_pieces

\* C29: when a worker finds that the bytes received for piece i do not hash
\* to its digest, its step writes nothing to the file, appends i to the
\* queue, puts i back into its peer_pieces, leaves the registry alone and
\* keeps the worker in its download loop.
C29_HashMismatchRequeues ==
    [][\A t \in Threads :
          (worker[t].pc = "HashCheck" /\ ~HashMatches(worker[t]) /\ worker'[t] # worker[t])
              => /\ disk' = disk
                 /\ fileCursor' = fileCursor
                 /\ queue' = Append(queue, worker[t].piece_index)
                 /\ worker[t].piece_index \in worker'[t].peer_pieces
                 /\ peers' = peers
                 /\ worker'[t].pc \in {"WaitUnchoke", "Pop"}]_vars

\* A worker that was never choked in the middle of a piece has pushed its
\* piece back after a digest mismatch and is back at the queue.
C29_Witness ==
    \E t \in Threads :
        /\ chokes = 0
        /\ pushes[t] = 1
        /\ worker[t].pc = "Pop"
        /\ queue # <<>>
        /\ queuedBy[Len(queuedBy)] = t
        /\ queue[Len(queue)] \in worker[t].peer_pieces

\* The elements of a sequence.
Range(q) == {q[j] : j \in DOMAIN q}

CeilDiv(a, b) == (a + b - 1) \div b

\* min of two integers
Min(a, b) == IF a < b THEN a ELSE b

\* C32: for every piece size >= 1 the worker sends ceil(piece_size /
\* block_size) requests with block_size = min(piece_size, 16384); request k
\* begins at k * block_size; every length is between 1 and 16384; the first
\* request begins at 0, every request begins where the one before it ends and
\* the last one ends at piece_size, so the lengths sum to piece_size and the
\* requests cover [0, piece_size) once, in ascending order.
C32_BlockPlan ==
    Returned("block_plan") =>
        LET size == call.piece_len
            plan == ret.v
            block_size == Min(size, 16384)
        IN /\ Len(plan) = CeilDiv(size, block_size)
           /\ \A k \in 1 .. Len(plan) :
                 /\ plan[k].kind = "Request"
                 /\ plan[k].index = call.piece_index
                 /\ plan[k].begin = (k - 1) * block_size
                 /\ plan[k].length >= 1
                 /\ plan[k].length <= 16384
                 /\ k < Len(plan) => plan[k].begin + plan[k].length = plan[k + 1].begin
           /\ plan[1].begin = 0
           /\ plan[Len(plan)].begin + plan[Len(plan)].length = size

\* The plan of a piece of 40000 bytes: two whole blocks and one of 7232.
C32_Witness ==
    /\ Returned("block_plan")
    /\ call.piece_len = 40000
    /\ Len(ret.v) = 3
    /\ ret.v[3].begin = 32768
    /\ ret.v[3].length = 7232

RECURSIVE SumOf(_)
\* The sum of a sequence of integers
SumOf(seq) == IF seq = <<>> THEN 0 ELSE Head(seq) + SumOf(Tail(seq))

\* C33: for length >= 1 and piece_length >= 1 with num_pieces = ceil(length /
\* piece_length), the worker's piece size is piece_length for every index but
\* the last, for the last index it is length mod piece_length when that is
\* nonzero and piece_length otherwise, and the sizes of all indices sum to
\* length.
C33_PieceSize ==
    Returned("piece_len") =>
        LET n == call.num_pieces
            sizes == ret.v
        IN /\ n = CeilDiv(call.length, call.piece_length)
           /\ Len(sizes) = n
           /\ \A k \in 1 .. (n - 1) : sizes[k] = call.piece_length
           /\ sizes[n] = IF call.length % call.piece_length # 0
                         THEN call.length % call.piece_length
                         ELSE call.piece_length
           /\ SumOf(sizes) = call.length

\* The torrent of 40000 bytes in pieces of 32768: sizes 32768 and 7232.
C33_Witness ==
    /\ Returned("piece_len")
    /\ call.length = 40000
    /\ call.piece_length = 32768
    /\ ret.v = <<32768, 7232>>

\* Bytes 28..48 of a handshake reply are not the torrent's info-hash.
OtherTorrent(region) == \E i \in 1 .. 20 : region[i] # InfoHash[i]

\* C34: the step in which a worker reads a handshake reply whose bytes 28..48
\* differ from the torrent's info-hash ends the worker without an error, with
\* the queue, the file and its cursor untouched, and a worker that has read
\* such a reply takes no further step: it sends nothing and touches neither
\* the queue nor the file.
C34_MismatchExitsClean ==
    [][\A t \in Threads :
          /\ (\E r \in worker'[t].hs \ worker[t].hs : OtherTorrent(r))
                => /\ worker'[t].pc = "Done"
                   /\ worker'[t].err = "-"
                   /\ <<queue, disk, fileCursor>>' = <<queue, disk, fileCursor>>
          /\ (\E r \in worker[t].hs : OtherTorrent(r))
                => /\ worker'[t] = worker[t]
                   /\ worker[t].pc = "Done"]_vars

\* C35: a step in which a call on the peer socket returns an error (a read
\* error, a timeout, end of stream) is a step in which the worker starts to
\* return, in every phase, the preamble before the first unchoke included;
\* and the only step a worker takes after such an error is that return: it
\* writes nothing more to the peer.
C35_IoErrorTerminates ==
    [][\A t \in Threads :
          /\ (worker'[t].ioerr /\ ~worker[t].ioerr) => worker'[t].pc = "RetErr"
          /\ (worker[t].ioerr /\ worker'[t] # worker[t])
                => /\ worker[t].pc = "RetErr"
                   /\ worker'[t].pc = "Done"]_vars

\* C36: the step that builds the queue leaves in it each index of
\* 0 .. num_pieces - 1 that the resume scan did not report complete, once
\* each, in some order, and no other index; when there is no such index main
\* exits with status 0 with the queue empty, and then no tracker has been
\* asked and no worker spawned.
C36_InitialQueue ==
    [][/\ (orchPc = "Start" /\ orchPc' # "Start")
             => LET left == Pieces \ CheckDownloadPercent(disk)
                IN /\ Len(queue') = Cardinality(left)
                   /\ Range(queue') = left
                   /\ \A i, j \in DOMAIN queue' : queue'[i] = queue'[j] => i = j
                   /\ orchPc' = IF left = {} THEN "Exit0" ELSE "LoopTop"
       /\ orchPc' = "Exit0"
             => /\ queue' = <<>>
                /\ handles' = <<>>
                /\ pending' = <<>>
                /\ peers' = {}
                /\ \A t \in Threads : worker'[t].pc = "Idle"]_vars

\* A resumed run: piece 0 is on disk and the queue holds piece 1 alone,
\* before the first announce.
C36_Witness ==
    /\ orchPc = "LoopTop"
    /\ handles = <<>>
    /\ disk[Offset(0)] = PieceContent(0)
    /\ queue = <<1>>

\* C37: in a run where a registered peer advertises every piece, stays
\* connected, unchokes after each choke and serves the blocks asked for, every
\* index of the initial queue is written to disk; since nothing is written
\* once main has returned, every piece is on disk, verified, when main
\* returns, the indices re-enqueued after a choke or a hash mismatch and the
\* indices popped by the workers of other peers included.
C37_DeliveryBeforeExit ==
    (/\ orchPc = "Exited"
     /\ \E t \in Threads : Served(t) /\ worker[t].pc = "Done")
        => \A i \in Pieces : disk[Offset(i)] = PieceContent(i)


====
